---- MODULE Spec2Model ----
(***************************************************************************)
(* Incremental semantic indexing and retrieval of the Malawian educational *)
(* AI tutor: malawian_educational_ai_tutor/{config,ingest,build_index,     *)
(* rag_llm}.py.  The state is the textbook directory, the on-disk index    *)
(* artifacts, the local variables of each running build_or_update_index()  *)
(* and the RAGTutor instance.                                              *)
(***************************************************************************)
EXTENDS Integers, Sequences, FiniteSets, TLC

(***************************************************************************)
(* Bounds of the model.                                                    *)
(***************************************************************************)
\* config.py sets 500 and 50 words; the model keeps the shape (overlap < size,
\* a last window that may be shorter) on texts of a few words.
ChunkSizeWords == 2
ChunkOverlapWords == 1
\* Modification times a file can carry.
MaxMtime == 2
\* Changes to the textbook directory and the cache directory made from outside.
MaxEnvSteps == 2
\* config.py sets 5 chunks and 6000 characters; the model keeps the shape (several
\* candidates, texts below, at and above the budget) on texts of a few characters.
TOP_K_CHUNKS == 3
MAX_CONTEXT_CHARS == 3
\* Records in a docstore file the tutor is given to load.
MaxDocs == 3
\* Words in a text given to chunk_text, and the largest chunk size and overlap.
MaxWords == 4
MaxChunkSize == 3
MaxOverlap == 3

Min(a, b) == IF a < b THEN a ELSE b
Max(a, b) == IF a > b THEN a ELSE b

(***************************************************************************)
(* Files.  A text is a sequence of one-character strings.                  *)
(***************************************************************************)
\* The files that can appear under TEXTBOOKS_DIR, in the order rglob yields them.
AllPaths == <<"a.txt", "b.pdf", "c.bin">>
Paths == {AllPaths[i] : i \in 1..Len(AllPaths)}

Suffix(path) ==
    CASE path = "a.txt" -> ".txt"
      [] path = "b.pdf" -> ".pdf"
      [] OTHER -> ".bin"

SUPPORTED_EXTENSIONS == {".txt", ".pdf", ".docx", ".doc"}

\* File contents: empty, whitespace only, one word (one chunk), two words (two
\* chunks).  The whitespace-only text and the one-word text have the same size.
Texts ==
    { <<>>, <<" ">>, <<"x">>, <<"x", " ", "y">> }

NoFile == [exists |-> FALSE, content |-> <<>>, mtime_ns |-> 0]
BinFile == [exists |-> TRUE, content |-> <<"x">>, mtime_ns |-> 1]

FileStates(path) ==
    IF Suffix(path) \in SUPPORTED_EXTENSIONS
    THEN {NoFile} \cup [exists : {TRUE}, content : Texts, mtime_ns : 1..MaxMtime]
    ELSE {NoFile, BinFile}

\* path.stat(): st_mtime_ns and st_size.
Stat(file) == [st_mtime_ns |-> file.mtime_ns, st_size |-> Len(file.content)]

\* Variant: every path gets the same cache key.
_compute_file_id_OneKey(path) ==
    IF path = "" THEN "id_c" ELSE "id_a"

\* _compute_file_id: the first 16 hex digits of the SHA-1 of the resolved path.
_compute_file_id(path) ==
    CASE path = "a.txt" -> "id_a"
      [] path = "b.pdf" -> "id_b"
      [] OTHER -> "id_c"

FileIds == {_compute_file_id(p) : p \in Paths}

(***************************************************************************)
(* ingest.py                                                               *)
(***************************************************************************)
IsSpace(c) == c \in {" ", "\n", "\t"}

\* str.strip() leaves something.
StripNonEmpty(text) == \E i \in 1..Len(text) : ~IsSpace(text[i])

RECURSIVE SplitFrom(_, _, _, _)
SplitFrom(text, i, cur, acc) ==
    IF i > Len(text)
    THEN IF cur = <<>> THEN acc ELSE Append(acc, cur)
    ELSE IF IsSpace(text[i])
         THEN SplitFrom(text, i + 1, <<>>, IF cur = <<>> THEN acc ELSE Append(acc, cur))
         ELSE SplitFrom(text, i + 1, Append(cur, text[i]), acc)

\* str.split(): the maximal runs of non-whitespace characters.
Split(text) == SplitFrom(text, 1, <<>>, <<>>)

RECURSIVE JoinFrom(_, _)
JoinFrom(words, i) ==
    IF i > Len(words) THEN <<>>
    ELSE IF i = Len(words) THEN words[i]
    ELSE words[i] \o <<" ">> \o JoinFrom(words, i + 1)

\* " ".join(words)
Join(words) == JoinFrom(words, 1)

\* Python's s[a:b] for integers a, b (negative ones count from the end).
PySlice(s, a, b) ==
    LET n == Len(s)
        lo == IF a < 0 THEN Max(n + a, 0) ELSE Min(a, n)
        hi == IF b < 0 THEN Max(n + b, 0) ELSE Min(b, n)
    IN SubSeq(s, lo + 1, hi)

RECURSIVE ChunkLoop(_, _, _, _, _)
ChunkLoop(words, start, chunk_size_words, step, chunks) ==
    IF start < Len(words)
    THEN LET end == start + chunk_size_words
             chunk_words == PySlice(words, start, end)
         IN IF chunk_words = <<>>
            THEN chunks
            ELSE ChunkLoop(words, start + step, chunk_size_words, step,
                           Append(chunks, Join(chunk_words)))
    ELSE chunks

chunk_text(text, chunk_size_words, overlap_words) ==
    LET words == Split(text)
    IN IF words = <<>>
       THEN <<>>
       ELSE ChunkLoop(words, 0, chunk_size_words,
                      Max(1, chunk_size_words - overlap_words), <<>>)

\* What the format-specific loader does with a file: "ok" returns its text, the
\* others raise.  _load_txt raises nothing the model follows; _load_pdf raises
\* RuntimeError when pypdf is missing.
Outcomes == {"ok", "missing_dependency"}

LoaderOutcomes(path) ==
    IF Suffix(path) = ".pdf" THEN {"ok", "missing_dependency"} ELSE {"ok"}

\* load_text_from_file: (text_or_none, reason_or_none).
load_text_from_file(path, file, outcome) ==
    IF Suffix(path) \notin SUPPORTED_EXTENSIONS
    THEN [none |-> TRUE, text |-> <<>>, reason |-> "Extension not supported"]
    ELSE IF outcome = "missing_dependency"
    THEN [none |-> TRUE, text |-> <<>>,
          reason |-> "Missing dependency 'pypdf' for PDF support"]
    ELSE IF file.content = <<>> \/ ~StripNonEmpty(file.content)
    THEN [none |-> TRUE, text |-> <<>>, reason |-> "File contains no extractable text"]
    ELSE [none |-> FALSE, text |-> file.content, reason |-> ""]

RECURSIVE SelectPaths(_, _, _)
SelectPaths(fsys, i, wantSupported) ==
    IF i > Len(AllPaths) THEN <<>>
    ELSE LET p == AllPaths[i]
             rest == SelectPaths(fsys, i + 1, wantSupported)
         IN IF fsys[p].exists /\ ((Suffix(p) \in SUPPORTED_EXTENSIONS) = wantSupported)
            THEN <<p>> \o rest
            ELSE rest

\* Mutant of discover_textbook_files: files of other extensions are dropped.
discover_textbook_files_SupportedOnly(fsys) ==
    [supported |-> SelectPaths(fsys, 1, TRUE),
     unsupported |-> <<>>]

\* discover_textbook_files: (supported, unsupported) by extension, in scan order.
discover_textbook_files(fsys) ==
    [supported |-> SelectPaths(fsys, 1, TRUE),
     unsupported |-> SelectPaths(fsys, 1, FALSE)]

(***************************************************************************)
(* State.                                                                  *)
(***************************************************************************)
Builders == {1, 2}

VARIABLES
    textbooks_dir,          \* TEXTBOOKS_DIR: path -> file
    file_cache_metadata,    \* FILE_CACHE_METADATA_PATH: path -> fingerprint record
    cache_chunks,           \* FILE_CACHE_DIR/<id>_chunks.json: file id -> artifact
    cache_embeddings,       \* FILE_CACHE_DIR/<id>_embeddings.npy: file id -> artifact
    faiss_index,            \* FAISS_INDEX_PATH
    docstore,               \* DOCSTORE_PATH
    index_metadata,         \* METADATA_PATH
    pc,                     \* builder -> where its build_or_update_index() stands
    textbooks,              \* builder -> supported files discovered (line 84)
    unsupported_by_extension,
    existing_meta,          \* builder -> the fingerprint map it loaded (line 86)
    pos,                    \* builder -> index of the next file of the loop (line 93)
    all_chunks,             \* builder -> line 89
    all_embeddings,         \* builder -> line 90, a list of per-file matrices
    runtime_unsupported,    \* builder -> line 91
    returned,               \* builder -> the metadata its build returned
    log,                    \* builder -> what its build called and wrote so far
    meta_at_start,          \* builder -> the fingerprint map on disk when it started
    cache_at_start,         \* builder -> the cache artifacts on disk when it started
    tutor,                  \* the RAGTutor instance of api.get_tutor()
    envSteps,
    request,                \* the last call of RAGTutor.answer_question and its outcome
    chunker,                \* a call of ingest.chunk_text: its arguments and locals
    origin                  \* which build wrote each published artifact, and which
                            \* builds' artifacts the tutor has loaded (0: none)

diskVars == <<file_cache_metadata, cache_chunks, cache_embeddings,
              faiss_index, docstore, index_metadata>>
localVars == <<pc, textbooks, unsupported_by_extension, existing_meta, pos,
               all_chunks, all_embeddings, runtime_unsupported, returned, log,
               meta_at_start, cache_at_start>>
vars == <<textbooks_dir, diskVars, localVars, tutor, envSteps, request, chunker, origin>>

NoArtifact == [exists |-> FALSE, data |-> <<>>]
Artifact(d) == [exists |-> TRUE, data |-> d]

NoRecord == [present |-> FALSE, mtime_ns |-> 0, size |-> 0]
EmptyMeta == [p \in Paths |-> NoRecord]

NoIndexMetadata ==
    [exists |-> FALSE, total_chunks |-> 0, index_built |-> FALSE,
     files_indexed |-> {}, unsupported_files |-> <<>>]

EmptyLog ==
    [tried |-> {}, reused |-> {}, extracted |-> {}, chunked |-> {}, embedded |-> {},
     saved |-> {}, wrote_index |-> FALSE, wrote_docstore |-> FALSE,
     wrote_metadata |-> FALSE, embed_failed |-> FALSE]

EmptyCache ==
    [chunks |-> [f \in FileIds |-> NoArtifact],
     embeddings |-> [f \in FileIds |-> NoArtifact]]

\* chunk_text is not being called.
NoChunker ==
    [pc |-> "none", text |-> <<>>, chunk_size_words |-> 0, overlap_words |-> 0,
     words |-> <<>>, chunks |-> <<>>, start |-> 0, step |-> 0, iterations |-> 0]

\* No question has been asked.
NoRequest ==
    [state |-> "none", question |-> <<>>, idxs |-> <<>>, examined |-> 0,
     context |-> <<>>, chosen_chunks |-> <<>>, answer |-> "", error |-> "",
     generate_calls |-> 0]

\* Nothing published by a build, nothing loaded by the tutor.
NoOrigin ==
    [faiss_index |-> 0, docstore |-> 0, index_metadata |-> 0,
     tutor_docstore |-> 0, tutor_index |-> 0]

NoTutor == [state |-> "none", error |-> "", _docstore |-> <<>>, _index |-> <<>>]

\* The textbooks present before the first build.
InitialDir ==
    [p \in Paths |->
        CASE p = "a.txt" -> [exists |-> TRUE, content |-> <<"x", " ", "y">>, mtime_ns |-> 1]
          [] p = "b.pdf" -> [exists |-> TRUE, content |-> <<"x">>, mtime_ns |-> 1]
          [] OTHER -> BinFile]

Init ==
    /\ textbooks_dir = InitialDir
    /\ file_cache_metadata = EmptyMeta
    /\ cache_chunks = [f \in FileIds |-> NoArtifact]
    /\ cache_embeddings = [f \in FileIds |-> NoArtifact]
    /\ faiss_index = NoArtifact
    /\ docstore = NoArtifact
    /\ index_metadata = NoIndexMetadata
    /\ pc = [b \in Builders |-> "idle"]
    /\ textbooks = [b \in Builders |-> <<>>]
    /\ unsupported_by_extension = [b \in Builders |-> <<>>]
    /\ existing_meta = [b \in Builders |-> EmptyMeta]
    /\ pos = [b \in Builders |-> 1]
    /\ all_chunks = [b \in Builders |-> <<>>]
    /\ all_embeddings = [b \in Builders |-> <<>>]
    /\ runtime_unsupported = [b \in Builders |-> <<>>]
    /\ returned = [b \in Builders |-> NoIndexMetadata]
    /\ log = [b \in Builders |-> EmptyLog]
    /\ meta_at_start = [b \in Builders |-> EmptyMeta]
    /\ cache_at_start = [b \in Builders |-> EmptyCache]
    /\ tutor = NoTutor
    /\ envSteps = 0
    /\ origin = NoOrigin
    /\ request = NoRequest
    /\ chunker = NoChunker

\* No build is running and no tutor is being served: rebuilds are offline.
Quiet == (\A b \in Builders : pc[b] = "idle") /\ tutor = NoTutor

(***************************************************************************)
(* The world outside the program: textbooks are added, rewritten and       *)
(* removed, and cache artifacts are removed, between builds.               *)
(***************************************************************************)
WriteTextbook(p, f) ==
    /\ Quiet
    /\ envSteps < MaxEnvSteps
    /\ f.exists
    /\ f # textbooks_dir[p]
    /\ textbooks_dir' = [textbooks_dir EXCEPT ![p] = f]
    /\ envSteps' = envSteps + 1
    /\ UNCHANGED <<diskVars, localVars, tutor, request, chunker, origin>>

RemoveTextbook(p) ==
    /\ Quiet
    /\ envSteps < MaxEnvSteps
    /\ textbooks_dir[p].exists
    /\ textbooks_dir' = [textbooks_dir EXCEPT ![p] = NoFile]
    /\ envSteps' = envSteps + 1
    /\ UNCHANGED <<diskVars, localVars, tutor, request, chunker, origin>>

RemoveCachedChunks(fid) ==
    /\ Quiet
    /\ envSteps < MaxEnvSteps
    /\ cache_chunks[fid].exists
    /\ cache_chunks' = [cache_chunks EXCEPT ![fid] = NoArtifact]
    /\ envSteps' = envSteps + 1
    /\ UNCHANGED <<textbooks_dir, file_cache_metadata, cache_embeddings, faiss_index,
                   docstore, index_metadata, localVars, tutor, request, chunker, origin>>

RemoveCachedEmbeddings(fid) ==
    /\ Quiet
    /\ envSteps < MaxEnvSteps
    /\ cache_embeddings[fid].exists
    /\ cache_embeddings' = [cache_embeddings EXCEPT ![fid] = NoArtifact]
    /\ envSteps' = envSteps + 1
    /\ UNCHANGED <<textbooks_dir, file_cache_metadata, cache_chunks, faiss_index,
                   docstore, index_metadata, localVars, tutor, request, chunker, origin>>

(***************************************************************************)
(* build_index.py                                                          *)
(***************************************************************************)
\* Mutants of FingerprintMatches: one field of the fingerprint is not compared.
FingerprintMatches_MtimeOnly(previous, stat) ==
    /\ previous.present
    /\ previous.mtime_ns = stat.st_mtime_ns

FingerprintMatches_SizeOnly(previous, stat) ==
    /\ previous.present
    /\ previous.size = stat.st_size

\* Lines 99-105: a persisted record exists and both of its fields equal the stat.
FingerprintMatches(previous, stat) ==
    /\ previous.present
    /\ previous.mtime_ns = stat.st_mtime_ns
    /\ previous.size = stat.st_size

\* Mutants of CacheFilesNotFound: a miss only when both artifacts are absent; a
\* lookup under a name the save never writes.
CacheFilesNotFound_BothAbsent(cache_basename) ==
    /\ ~cache_chunks[cache_basename].exists
    /\ ~cache_embeddings[cache_basename].exists

CacheFilesNotFound_WrongName(cache_basename) ==
    \/ ~cache_chunks[cache_basename].exists
    \/ ~cache_embeddings[cache_basename].exists
    \/ cache_basename \in FileIds

\* _load_cached_chunks_and_embeddings, line 50: FileNotFoundError.
CacheFilesNotFound(cache_basename) ==
    \/ ~cache_chunks[cache_basename].exists
    \/ ~cache_embeddings[cache_basename].exists

\* The embedder: one unit vector per text, a function of the text alone.
Encode(chunk_texts) ==
    [i \in 1..Len(chunk_texts) |-> [vec |-> chunk_texts[i]]]

\* Lines 149-158: the chunk records of one file.
PerFileChunks(path, chunk_texts) ==
    [i \in 1..Len(chunk_texts) |->
        [id |-> <<_compute_file_id(path), i - 1>>,
         text |-> chunk_texts[i],
         source_file |-> path,
         chunk_index |-> i - 1]]

\* Lines 165-171: the fingerprint record of a file just recomputed.
NewRecord(stat) ==
    [present |-> TRUE, mtime_ns |-> stat.st_mtime_ns, size |-> stat.st_size]

\* Mutant of VStack: only the last file's matrix reaches the index.
VStack_LastOnly(mats) == IF mats = <<>> THEN <<>> ELSE mats[Len(mats)]

RECURSIVE VStack(_)
\* np.vstack: the rows of the matrices, in order.
VStack(mats) == IF mats = <<>> THEN <<>> ELSE Head(mats) \o VStack(Tail(mats))

\* Mutant of UnsupportedFiles: the files skipped while processing are left out.
UnsupportedFiles_ByExtensionOnly(runtime, by_extension) ==
    [i \in 1..Len(by_extension) |->
        [path |-> by_extension[i],
         reason |-> "extension_not_in_[txt,pdf,doc,docx]"]]

\* Lines 176-183: the files skipped while processing, then those of other extensions.
UnsupportedFiles(runtime, by_extension) ==
    runtime \o [i \in 1..Len(by_extension) |->
                   [path |-> by_extension[i],
                    reason |-> "extension_not_in_[txt,pdf,doc,docx]"]]

FilesIndexed(meta) ==
    {[path |-> p, mtime_ns |-> meta[p].mtime_ns, size |-> meta[p].size] :
        p \in {q \in Paths : meta[q].present}}

ResetLocals(b) ==
    /\ textbooks' = [textbooks EXCEPT ![b] = <<>>]
    /\ unsupported_by_extension' = [unsupported_by_extension EXCEPT ![b] = <<>>]
    /\ existing_meta' = [existing_meta EXCEPT ![b] = EmptyMeta]
    /\ pos' = [pos EXCEPT ![b] = 1]
    /\ all_chunks' = [all_chunks EXCEPT ![b] = <<>>]
    /\ all_embeddings' = [all_embeddings EXCEPT ![b] = <<>>]
    /\ runtime_unsupported' = [runtime_unsupported EXCEPT ![b] = <<>>]
    /\ returned' = [returned EXCEPT ![b] = NoIndexMetadata]
    /\ log' = [log EXCEPT ![b] = EmptyLog]
    /\ meta_at_start' = [meta_at_start EXCEPT ![b] = EmptyMeta]
    /\ cache_at_start' = [cache_at_start EXCEPT ![b] = EmptyCache]

\* Lines 81-91: discover the files and load the fingerprint map.
StartBuild(b) ==
    /\ pc[b] = "idle"
    /\ tutor = NoTutor
    /\ LET found == discover_textbook_files(textbooks_dir)
       IN /\ textbooks' = [textbooks EXCEPT ![b] = found.supported]
          /\ unsupported_by_extension' =
                 [unsupported_by_extension EXCEPT ![b] = found.unsupported]
    /\ existing_meta' = [existing_meta EXCEPT ![b] = file_cache_metadata]
    /\ meta_at_start' = [meta_at_start EXCEPT ![b] = file_cache_metadata]
    /\ cache_at_start' =
           [cache_at_start EXCEPT ![b] =
               [chunks |-> cache_chunks, embeddings |-> cache_embeddings]]
    /\ pos' = [pos EXCEPT ![b] = 1]
    /\ all_chunks' = [all_chunks EXCEPT ![b] = <<>>]
    /\ all_embeddings' = [all_embeddings EXCEPT ![b] = <<>>]
    /\ runtime_unsupported' = [runtime_unsupported EXCEPT ![b] = <<>>]
    /\ returned' = [returned EXCEPT ![b] = NoIndexMetadata]
    /\ log' = [log EXCEPT ![b] = EmptyLog]
    /\ pc' = [pc EXCEPT ![b] = "loop"]
    /\ UNCHANGED <<textbooks_dir, diskVars, tutor, envSteps, request, chunker, origin>>

InLoop(b) == pc[b] = "loop" /\ pos[b] <= Len(textbooks[b])
CurrentPath(b) == textbooks[b][pos[b]]
CurrentStat(b) == Stat(textbooks_dir[CurrentPath(b)])

\* Lines 99-113: the fingerprint matches, so the cache is tried.
CacheTried(b) == FingerprintMatches(existing_meta[b][CurrentPath(b)], CurrentStat(b))

\* Line 115: cache_exists.
CacheExists(b) == CacheTried(b) /\ ~CacheFilesNotFound(_compute_file_id(CurrentPath(b)))

TriedNow(b) == IF CacheTried(b) THEN {CurrentPath(b)} ELSE {}

\* Mutant of ReuseCached: the cached chunks and embeddings go in front of the lists.
ReuseCached_Prepends(b) ==
    /\ InLoop(b)
    /\ CacheExists(b)
    /\ LET path == CurrentPath(b)
           fid == _compute_file_id(path)
       IN /\ all_chunks' = [all_chunks EXCEPT ![b] = cache_chunks[fid].data \o @]
          /\ all_embeddings' =
                 [all_embeddings EXCEPT ![b] = <<cache_embeddings[fid].data>> \o @]
          /\ log' = [log EXCEPT ![b].tried = @ \cup {path}, ![b].reused = @ \cup {path}]
    /\ pos' = [pos EXCEPT ![b] = @ + 1]
    /\ UNCHANGED <<textbooks_dir, diskVars, pc, textbooks, unsupported_by_extension,
                   existing_meta, runtime_unsupported, returned, meta_at_start, cache_at_start,
                   tutor, envSteps, request, chunker, origin>>

\* Mutant of ReuseCached: the cached embeddings are not added to the list.
ReuseCached_ForgetsEmbeddings(b) ==
    /\ InLoop(b)
    /\ CacheExists(b)
    /\ LET path == CurrentPath(b)
           fid == _compute_file_id(path)
       IN /\ all_chunks' = [all_chunks EXCEPT ![b] = @ \o cache_chunks[fid].data]
          /\ all_embeddings' = all_embeddings
          /\ log' = [log EXCEPT ![b].tried = @ \cup {path}, ![b].reused = @ \cup {path}]
    /\ pos' = [pos EXCEPT ![b] = @ + 1]
    /\ UNCHANGED <<textbooks_dir, diskVars, pc, textbooks, unsupported_by_extension,
                   existing_meta, runtime_unsupported, returned, meta_at_start, cache_at_start,
                   tutor, envSteps, request, chunker, origin>>

\* Lines 106-116: the file's cached chunks and embeddings are reused.
ReuseCached(b) ==
    /\ InLoop(b)
    /\ CacheExists(b)
    /\ LET path == CurrentPath(b)
           fid == _compute_file_id(path)
       IN /\ all_chunks' = [all_chunks EXCEPT ![b] = @ \o cache_chunks[fid].data]
          /\ all_embeddings' =
                 [all_embeddings EXCEPT ![b] = Append(@, cache_embeddings[fid].data)]
          /\ log' = [log EXCEPT ![b].tried = @ \cup {path}, ![b].reused = @ \cup {path}]
    /\ pos' = [pos EXCEPT ![b] = @ + 1]
    /\ UNCHANGED <<textbooks_dir, diskVars, pc, textbooks, unsupported_by_extension,
                   existing_meta, runtime_unsupported, returned, meta_at_start, cache_at_start,
                   tutor, envSteps, request, chunker, origin>>

\* Lines 119-137: no text, or no chunks: the file is recorded and skipped.
SkipFile(b, outcome) ==
    /\ InLoop(b)
    /\ ~CacheExists(b)
    /\ outcome \in LoaderOutcomes(CurrentPath(b))
    /\ LET path == CurrentPath(b)
           loaded == load_text_from_file(path, textbooks_dir[path], outcome)
           chunk_texts == chunk_text(loaded.text, ChunkSizeWords, ChunkOverlapWords)
       IN /\ loaded.none \/ chunk_texts = <<>>
          /\ runtime_unsupported' =
                 [runtime_unsupported EXCEPT ![b] =
                     Append(@, [path |-> path,
                                reason |-> IF ~loaded.none THEN "no_chunks_after_split"
                                           ELSE IF loaded.reason = "" THEN "unreadable"
                                           ELSE loaded.reason])]
          /\ log' = [log EXCEPT ![b].tried = @ \cup TriedNow(b),
                                ![b].extracted = @ \cup {path},
                                ![b].chunked = @ \cup (IF loaded.none THEN {} ELSE {path})]
    /\ pos' = [pos EXCEPT ![b] = @ + 1]
    /\ UNCHANGED <<textbooks_dir, diskVars, pc, textbooks, unsupported_by_extension,
                   existing_meta, all_chunks, all_embeddings, returned, meta_at_start, cache_at_start,
                   tutor, envSteps, request, chunker, origin>>

\* Mutant of EmbedRaises: the chunk list is saved before the embedder is called.
EmbedRaises_SavesChunks(b, outcome) ==
    /\ InLoop(b)
    /\ ~CacheExists(b)
    /\ outcome \in LoaderOutcomes(CurrentPath(b))
    /\ LET path == CurrentPath(b)
           loaded == load_text_from_file(path, textbooks_dir[path], outcome)
           chunk_texts == chunk_text(loaded.text, ChunkSizeWords, ChunkOverlapWords)
       IN /\ ~loaded.none
          /\ chunk_texts # <<>>
          /\ cache_chunks' = [cache_chunks EXCEPT ![_compute_file_id(path)] =
                                  Artifact(PerFileChunks(path, chunk_texts))]
          /\ log' = [log EXCEPT ![b].tried = @ \cup TriedNow(b),
                                ![b].extracted = @ \cup {path},
                                ![b].chunked = @ \cup {path},
                                ![b].embedded = @ \cup {path},
                                ![b].embed_failed = TRUE]
    /\ pc' = [pc EXCEPT ![b] = "raised"]
    /\ UNCHANGED <<textbooks_dir, file_cache_metadata, cache_embeddings, faiss_index,
                   docstore, index_metadata, textbooks, unsupported_by_extension,
                   existing_meta, pos, all_chunks, all_embeddings, runtime_unsupported,
                   returned, meta_at_start, cache_at_start, tutor, envSteps, request, chunker, origin>>

\* Lines 140-146: embedder.encode raises; nothing in build_or_update_index catches it.
EmbedRaises(b, outcome) ==
    /\ InLoop(b)
    /\ ~CacheExists(b)
    /\ outcome \in LoaderOutcomes(CurrentPath(b))
    /\ LET path == CurrentPath(b)
           loaded == load_text_from_file(path, textbooks_dir[path], outcome)
           chunk_texts == chunk_text(loaded.text, ChunkSizeWords, ChunkOverlapWords)
       IN /\ ~loaded.none
          /\ chunk_texts # <<>>
          /\ log' = [log EXCEPT ![b].tried = @ \cup TriedNow(b),
                                ![b].extracted = @ \cup {path},
                                ![b].chunked = @ \cup {path},
                                ![b].embedded = @ \cup {path},
                                ![b].embed_failed = TRUE]
    /\ pc' = [pc EXCEPT ![b] = "raised"]
    /\ UNCHANGED <<textbooks_dir, diskVars, textbooks, unsupported_by_extension,
                   existing_meta, pos, all_chunks, all_embeddings, runtime_unsupported,
                   returned, meta_at_start, cache_at_start, tutor, envSteps, request, chunker, origin>>

\* Mutant of Recompute: an embedding matrix already in the cache is not overwritten.
Recompute_KeepsOldEmbeddings(b, outcome) ==
    /\ InLoop(b)
    /\ ~CacheExists(b)
    /\ outcome \in LoaderOutcomes(CurrentPath(b))
    /\ LET path == CurrentPath(b)
           fid == _compute_file_id(path)
           loaded == load_text_from_file(path, textbooks_dir[path], outcome)
           chunk_texts == chunk_text(loaded.text, ChunkSizeWords, ChunkOverlapWords)
           embeddings == Encode(chunk_texts)
           per_file_chunks == PerFileChunks(path, chunk_texts)
       IN /\ ~loaded.none
          /\ chunk_texts # <<>>
          /\ cache_chunks' = [cache_chunks EXCEPT ![fid] = Artifact(per_file_chunks)]
          /\ cache_embeddings' =
                 [cache_embeddings EXCEPT ![fid] =
                     IF @.exists THEN @ ELSE Artifact(embeddings)]
          /\ all_chunks' = [all_chunks EXCEPT ![b] = @ \o per_file_chunks]
          /\ all_embeddings' = [all_embeddings EXCEPT ![b] = Append(@, embeddings)]
          /\ existing_meta' =
                 [existing_meta EXCEPT ![b][path] = NewRecord(CurrentStat(b))]
          /\ log' = [log EXCEPT ![b].tried = @ \cup TriedNow(b),
                                ![b].extracted = @ \cup {path},
                                ![b].chunked = @ \cup {path},
                                ![b].embedded = @ \cup {path},
                                ![b].saved = @ \cup {path}]
    /\ pos' = [pos EXCEPT ![b] = @ + 1]
    /\ UNCHANGED <<textbooks_dir, file_cache_metadata, faiss_index, docstore,
                   index_metadata, pc, textbooks, unsupported_by_extension,
                   runtime_unsupported, returned, meta_at_start, cache_at_start, tutor, envSteps, request, chunker, origin>>

\* Lines 119-171: the file is extracted, chunked, embedded, cached and recorded.
Recompute(b, outcome) ==
    /\ InLoop(b)
    /\ ~CacheExists(b)
    /\ outcome \in LoaderOutcomes(CurrentPath(b))
    /\ LET path == CurrentPath(b)
           fid == _compute_file_id(path)
           loaded == load_text_from_file(path, textbooks_dir[path], outcome)
           chunk_texts == chunk_text(loaded.text, ChunkSizeWords, ChunkOverlapWords)
           embeddings == Encode(chunk_texts)
           per_file_chunks == PerFileChunks(path, chunk_texts)
       IN /\ ~loaded.none
          /\ chunk_texts # <<>>
          /\ cache_chunks' = [cache_chunks EXCEPT ![fid] = Artifact(per_file_chunks)]
          /\ cache_embeddings' = [cache_embeddings EXCEPT ![fid] = Artifact(embeddings)]
          /\ all_chunks' = [all_chunks EXCEPT ![b] = @ \o per_file_chunks]
          /\ all_embeddings' = [all_embeddings EXCEPT ![b] = Append(@, embeddings)]
          /\ existing_meta' =
                 [existing_meta EXCEPT ![b][path] = NewRecord(CurrentStat(b))]
          /\ log' = [log EXCEPT ![b].tried = @ \cup TriedNow(b),
                                ![b].extracted = @ \cup {path},
                                ![b].chunked = @ \cup {path},
                                ![b].embedded = @ \cup {path},
                                ![b].saved = @ \cup {path}]
    /\ pos' = [pos EXCEPT ![b] = @ + 1]
    /\ UNCHANGED <<textbooks_dir, file_cache_metadata, faiss_index, docstore,
                   index_metadata, pc, textbooks, unsupported_by_extension,
                   runtime_unsupported, returned, meta_at_start, cache_at_start, tutor, envSteps, request, chunker, origin>>

\* Mutant of SaveFileMetadata: every discovered file gets a fresh record.
SaveFileMetadata_AllDiscovered(b) ==
    /\ pc[b] = "loop"
    /\ pos[b] > Len(textbooks[b])
    /\ file_cache_metadata' =
           [p \in Paths |-> IF p \in {textbooks[b][i] : i \in 1..Len(textbooks[b])}
                            THEN NewRecord(Stat(textbooks_dir[p]))
                            ELSE existing_meta[b][p]]
    /\ pc' = [pc EXCEPT ![b] = "assemble"]
    /\ UNCHANGED <<textbooks_dir, cache_chunks, cache_embeddings, faiss_index, docstore,
                   index_metadata, textbooks, unsupported_by_extension, existing_meta,
                   pos, all_chunks, all_embeddings, runtime_unsupported, returned, log,
                   meta_at_start, cache_at_start, tutor, envSteps, request, chunker, origin>>

\* Mutant of SaveFileMetadata: the records of files no longer discovered are pruned.
SaveFileMetadata_PrunesDeleted(b) ==
    /\ pc[b] = "loop"
    /\ pos[b] > Len(textbooks[b])
    /\ file_cache_metadata' =
           [p \in Paths |-> IF p \in {textbooks[b][i] : i \in 1..Len(textbooks[b])}
                            THEN existing_meta[b][p]
                            ELSE NoRecord]
    /\ pc' = [pc EXCEPT ![b] = "assemble"]
    /\ UNCHANGED <<textbooks_dir, cache_chunks, cache_embeddings, faiss_index, docstore,
                   index_metadata, textbooks, unsupported_by_extension, existing_meta,
                   pos, all_chunks, all_embeddings, runtime_unsupported, returned, log,
                   meta_at_start, cache_at_start, tutor, envSteps, request, chunker, origin>>

\* Line 173: _save_file_metadata(existing_meta).
SaveFileMetadata(b) ==
    /\ pc[b] = "loop"
    /\ pos[b] > Len(textbooks[b])
    /\ file_cache_metadata' = existing_meta[b]
    /\ pc' = [pc EXCEPT ![b] = "assemble"]
    /\ UNCHANGED <<textbooks_dir, cache_chunks, cache_embeddings, faiss_index, docstore,
                   index_metadata, textbooks, unsupported_by_extension, existing_meta,
                   pos, all_chunks, all_embeddings, runtime_unsupported, returned, log,
                   meta_at_start, cache_at_start, tutor, envSteps, request, chunker, origin>>

\* Mutant of WriteNotBuilt: an empty index and docstore are written as well.
WriteNotBuilt_EmptyIndex(b) ==
    /\ pc[b] = "assemble"
    /\ all_embeddings[b] = <<>>
    /\ LET metadata ==
               [exists |-> TRUE, total_chunks |-> 0, index_built |-> FALSE,
                files_indexed |-> {},
                unsupported_files |->
                    UnsupportedFiles(runtime_unsupported[b], unsupported_by_extension[b])]
       IN /\ index_metadata' = metadata
          /\ returned' = [returned EXCEPT ![b] = metadata]
    /\ faiss_index' = Artifact(<<>>)
    /\ docstore' = Artifact(<<>>)
    /\ log' = [log EXCEPT ![b].wrote_metadata = TRUE, ![b].wrote_index = TRUE,
                          ![b].wrote_docstore = TRUE]
    /\ pc' = [pc EXCEPT ![b] = "done"]
    /\ origin' = [origin EXCEPT !.index_metadata = b, !.faiss_index = b,
                                !.docstore = b]
    /\ UNCHANGED <<textbooks_dir, file_cache_metadata, cache_chunks, cache_embeddings,
                   textbooks, unsupported_by_extension,
                   existing_meta, pos, all_chunks, all_embeddings, runtime_unsupported,
                   meta_at_start, cache_at_start, tutor, envSteps, request, chunker>>

\* Lines 185-196: no embeddings at all: only the metadata is written.
WriteNotBuilt(b) ==
    /\ pc[b] = "assemble"
    /\ all_embeddings[b] = <<>>
    /\ LET metadata ==
               [exists |-> TRUE, total_chunks |-> 0, index_built |-> FALSE,
                files_indexed |-> {},
                unsupported_files |->
                    UnsupportedFiles(runtime_unsupported[b], unsupported_by_extension[b])]
       IN /\ index_metadata' = metadata
          /\ returned' = [returned EXCEPT ![b] = metadata]
    /\ log' = [log EXCEPT ![b].wrote_metadata = TRUE]
    /\ pc' = [pc EXCEPT ![b] = "done"]
    /\ origin' = [origin EXCEPT !.index_metadata = b]
    /\ UNCHANGED <<textbooks_dir, file_cache_metadata, cache_chunks, cache_embeddings,
                   faiss_index, docstore, textbooks, unsupported_by_extension,
                   existing_meta, pos, all_chunks, all_embeddings, runtime_unsupported,
                   meta_at_start, cache_at_start, tutor, envSteps, request, chunker>>

\* Lines 198-206: the index over the stacked embeddings is written.
WriteIndex(b) ==
    /\ pc[b] = "assemble"
    /\ all_embeddings[b] # <<>>
    /\ faiss_index' = Artifact(VStack(all_embeddings[b]))
    /\ log' = [log EXCEPT ![b].wrote_index = TRUE]
    /\ pc' = [pc EXCEPT ![b] = "write_docstore"]
    /\ origin' = [origin EXCEPT !.faiss_index = b]
    /\ UNCHANGED <<textbooks_dir, file_cache_metadata, cache_chunks, cache_embeddings,
                   docstore, index_metadata, textbooks, unsupported_by_extension,
                   existing_meta, pos, all_chunks, all_embeddings, runtime_unsupported,
                   returned, meta_at_start, cache_at_start, tutor, envSteps, request, chunker>>

\* Lines 208-209: the docstore is written.
WriteDocstore(b) ==
    /\ pc[b] = "write_docstore"
    /\ docstore' = Artifact(all_chunks[b])
    /\ log' = [log EXCEPT ![b].wrote_docstore = TRUE]
    /\ pc' = [pc EXCEPT ![b] = "write_metadata"]
    /\ origin' = [origin EXCEPT !.docstore = b]
    /\ UNCHANGED <<textbooks_dir, file_cache_metadata, cache_chunks, cache_embeddings,
                   faiss_index, index_metadata, textbooks, unsupported_by_extension,
                   existing_meta, pos, all_chunks, all_embeddings, runtime_unsupported,
                   returned, meta_at_start, cache_at_start, tutor, envSteps, request, chunker>>

\* Lines 211-223: the metadata of a built index is written and returned.
WriteMetadata(b) ==
    /\ pc[b] = "write_metadata"
    /\ LET metadata ==
               [exists |-> TRUE, total_chunks |-> Len(all_chunks[b]),
                index_built |-> TRUE,
                files_indexed |-> FilesIndexed(existing_meta[b]),
                unsupported_files |->
                    UnsupportedFiles(runtime_unsupported[b], unsupported_by_extension[b])]
       IN /\ index_metadata' = metadata
          /\ returned' = [returned EXCEPT ![b] = metadata]
    /\ log' = [log EXCEPT ![b].wrote_metadata = TRUE]
    /\ pc' = [pc EXCEPT ![b] = "done"]
    /\ origin' = [origin EXCEPT !.index_metadata = b]
    /\ UNCHANGED <<textbooks_dir, file_cache_metadata, cache_chunks, cache_embeddings,
                   faiss_index, docstore, textbooks, unsupported_by_extension,
                   existing_meta, pos, all_chunks, all_embeddings, runtime_unsupported,
                   meta_at_start, cache_at_start, tutor, envSteps, request, chunker>>

\* The caller has the result (or the exception); the locals are gone.
Return(b) ==
    /\ pc[b] \in {"done", "raised"}
    /\ pc' = [pc EXCEPT ![b] = "idle"]
    /\ ResetLocals(b)
    /\ UNCHANGED <<textbooks_dir, diskVars, tutor, envSteps, request, chunker, origin>>

(***************************************************************************)
(* rag_llm.py                                                              *)
(***************************************************************************)
\* RAGTutor.__init__, lines 34-45, through api.get_tutor (an instance, once
\* built, is kept; a failed construction is tried again on the next request).
RAGTutorInit ==
    /\ \A b \in Builders : pc[b] = "idle"
    /\ tutor.state # "ready"
    /\ tutor' =
         IF ~faiss_index.exists \/ ~docstore.exists
         THEN [state |-> "failed", error |-> "Vector index not found",
               _docstore |-> <<>>, _index |-> <<>>]
         ELSE IF docstore.data = <<>>
         THEN [state |-> "failed", error |-> "Vector index is empty",
               _docstore |-> <<>>, _index |-> <<>>]
         ELSE [state |-> "ready", error |-> "",
               _docstore |-> docstore.data, _index |-> faiss_index.data]
    /\ tutor' # tutor
    /\ origin' = [origin EXCEPT
           !.tutor_docstore = IF tutor'.state = "ready" THEN origin.docstore ELSE 0,
           !.tutor_index = IF tutor'.state = "ready" THEN origin.faiss_index ELSE 0]
    /\ UNCHANGED <<textbooks_dir, diskVars, localVars, envSteps, request, chunker>>

\* The serving process is restarted.
Restart ==
    /\ tutor # NoTutor
    /\ tutor' = NoTutor
    /\ origin' = [origin EXCEPT !.tutor_docstore = 0, !.tutor_index = 0]
    /\ UNCHANGED <<textbooks_dir, diskVars, localVars, envSteps, request, chunker>>

\* Questions a caller passes: empty, blank, and one with a word in it.
Questions == { <<>>, <<" ">>, <<"q">> }

RECURSIVE JoinParagraphsFrom(_, _)
JoinParagraphsFrom(parts, i) ==
    IF i > Len(parts) THEN <<>>
    ELSE IF i = Len(parts) THEN parts[i]
    ELSE parts[i] \o <<"\n", "\n">> \o JoinParagraphsFrom(parts, i + 1)

\* "\n\n".join(context_parts)
JoinParagraphs(parts) == JoinParagraphsFrom(parts, 1)

\* self._index.search(query_embedding, k) on the flat inner-product index: the
\* labels of the k best rows in ranked order, which rows depending on the query
\* embedding; when the index has fewer than k rows the rest is filled with -1.
SearchResults(index, k) ==
    {idxs \in [1..k -> -1..(Len(index) - 1)] :
        /\ \A i \in 1..k : (idxs[i] = -1) <=> (i > Len(index))
        /\ \A i \in 1..k : \A j \in (i + 1)..k :
               idxs[i] # -1 => idxs[i] # idxs[j]}

RECURSIVE RetrieveLoop_NoFirstExemption(_, _, _, _, _, _)
\* Mutant of RetrieveLoop: the budget test does not exempt an empty context.
RetrieveLoop_NoFirstExemption(_docstore, idxs, rank, chosen_chunks, context_parts, total_chars) ==
    IF rank > Len(idxs)
    THEN [chosen_chunks |-> chosen_chunks, context_parts |-> context_parts,
          total_chars |-> total_chars, examined |-> Len(idxs)]
    ELSE LET idx == idxs[rank]
             total_chunks == Len(_docstore)
         IN IF idx < 0 \/ idx >= total_chunks
            THEN RetrieveLoop_NoFirstExemption(_docstore, idxs, rank + 1, chosen_chunks,
                              context_parts, total_chars)
            ELSE LET meta == _docstore[idx + 1]
                     text == meta.text
                 IN IF text = <<>>
                    THEN RetrieveLoop_NoFirstExemption(_docstore, idxs, rank + 1, chosen_chunks,
                                      context_parts, total_chars)
                    ELSE IF total_chars + Len(text) > MAX_CONTEXT_CHARS
                    THEN [chosen_chunks |-> chosen_chunks,
                          context_parts |-> context_parts,
                          total_chars |-> total_chars, examined |-> rank]
                    ELSE RetrieveLoop_NoFirstExemption(_docstore, idxs, rank + 1,
                                      Append(chosen_chunks, meta),
                                      Append(context_parts, text),
                                      total_chars + Len(text))

RECURSIVE RetrieveLoop_SkipsOverBudget(_, _, _, _, _, _)
\* Mutant of RetrieveLoop: a candidate over the budget is skipped and the loop goes on.
RetrieveLoop_SkipsOverBudget(_docstore, idxs, rank, chosen_chunks, context_parts, total_chars) ==
    IF rank > Len(idxs)
    THEN [chosen_chunks |-> chosen_chunks, context_parts |-> context_parts,
          total_chars |-> total_chars, examined |-> Len(idxs)]
    ELSE LET idx == idxs[rank]
             total_chunks == Len(_docstore)
         IN IF idx < 0 \/ idx >= total_chunks
            THEN RetrieveLoop_SkipsOverBudget(_docstore, idxs, rank + 1, chosen_chunks,
                              context_parts, total_chars)
            ELSE LET meta == _docstore[idx + 1]
                     text == meta.text
                 IN IF text = <<>>
                    THEN RetrieveLoop_SkipsOverBudget(_docstore, idxs, rank + 1, chosen_chunks,
                                      context_parts, total_chars)
                    ELSE IF total_chars + Len(text) > MAX_CONTEXT_CHARS
                               /\ context_parts # <<>>
                    THEN RetrieveLoop_SkipsOverBudget(_docstore, idxs, rank + 1, chosen_chunks,
                                      context_parts, total_chars)
                    ELSE RetrieveLoop_SkipsOverBudget(_docstore, idxs, rank + 1,
                                      Append(chosen_chunks, meta),
                                      Append(context_parts, text),
                                      total_chars + Len(text))

RECURSIVE RetrieveLoop_TestsTotalBeforeAdding(_, _, _, _, _, _)
\* Mutant of RetrieveLoop: the budget test looks at the total before the candidate is added.
RetrieveLoop_TestsTotalBeforeAdding(_docstore, idxs, rank, chosen_chunks, context_parts, total_chars) ==
    IF rank > Len(idxs)
    THEN [chosen_chunks |-> chosen_chunks, context_parts |-> context_parts,
          total_chars |-> total_chars, examined |-> Len(idxs)]
    ELSE LET idx == idxs[rank]
             total_chunks == Len(_docstore)
         IN IF idx < 0 \/ idx >= total_chunks
            THEN RetrieveLoop_TestsTotalBeforeAdding(_docstore, idxs, rank + 1, chosen_chunks,
                              context_parts, total_chars)
            ELSE LET meta == _docstore[idx + 1]
                     text == meta.text
                 IN IF text = <<>>
                    THEN RetrieveLoop_TestsTotalBeforeAdding(_docstore, idxs, rank + 1, chosen_chunks,
                                      context_parts, total_chars)
                    ELSE IF total_chars > MAX_CONTEXT_CHARS
                               /\ context_parts # <<>>
                    THEN [chosen_chunks |-> chosen_chunks,
                          context_parts |-> context_parts,
                          total_chars |-> total_chars, examined |-> rank]
                    ELSE RetrieveLoop_TestsTotalBeforeAdding(_docstore, idxs, rank + 1,
                                      Append(chosen_chunks, meta),
                                      Append(context_parts, text),
                                      total_chars + Len(text))

RECURSIVE RetrieveLoop_ListsRejectedChunk(_, _, _, _, _, _)
\* Mutant of RetrieveLoop: the candidate is put on the chunk list before the budget test.
RetrieveLoop_ListsRejectedChunk(_docstore, idxs, rank, chosen_chunks, context_parts, total_chars) ==
    IF rank > Len(idxs)
    THEN [chosen_chunks |-> chosen_chunks, context_parts |-> context_parts,
          total_chars |-> total_chars, examined |-> Len(idxs)]
    ELSE LET idx == idxs[rank]
             total_chunks == Len(_docstore)
         IN IF idx < 0 \/ idx >= total_chunks
            THEN RetrieveLoop_ListsRejectedChunk(_docstore, idxs, rank + 1, chosen_chunks,
                              context_parts, total_chars)
            ELSE LET meta == _docstore[idx + 1]
                     text == meta.text
                 IN IF text = <<>>
                    THEN RetrieveLoop_ListsRejectedChunk(_docstore, idxs, rank + 1, chosen_chunks,
                                      context_parts, total_chars)
                    ELSE IF total_chars + Len(text) > MAX_CONTEXT_CHARS
                               /\ context_parts # <<>>
                    THEN [chosen_chunks |-> Append(chosen_chunks, meta),
                          context_parts |-> context_parts,
                          total_chars |-> total_chars, examined |-> rank]
                    ELSE RetrieveLoop_ListsRejectedChunk(_docstore, idxs, rank + 1,
                                      Append(chosen_chunks, meta),
                                      Append(context_parts, text),
                                      total_chars + Len(text))

RECURSIVE RetrieveLoop(_, _, _, _, _, _)
\* Lines 82-95: the loop over the ranked candidates, from position rank on.
RetrieveLoop(_docstore, idxs, rank, chosen_chunks, context_parts, total_chars) ==
    IF rank > Len(idxs)
    THEN [chosen_chunks |-> chosen_chunks, context_parts |-> context_parts,
          total_chars |-> total_chars, examined |-> Len(idxs)]
    ELSE LET idx == idxs[rank]
             total_chunks == Len(_docstore)
         IN IF idx < 0 \/ idx >= total_chunks
            THEN RetrieveLoop(_docstore, idxs, rank + 1, chosen_chunks,
                              context_parts, total_chars)
            ELSE LET meta == _docstore[idx + 1]
                     text == meta.text
                 IN IF text = <<>>
                    THEN RetrieveLoop(_docstore, idxs, rank + 1, chosen_chunks,
                                      context_parts, total_chars)
                    ELSE IF total_chars + Len(text) > MAX_CONTEXT_CHARS
                               /\ context_parts # <<>>
                    THEN [chosen_chunks |-> chosen_chunks,
                          context_parts |-> context_parts,
                          total_chars |-> total_chars, examined |-> rank]
                    ELSE RetrieveLoop(_docstore, idxs, rank + 1,
                                      Append(chosen_chunks, meta),
                                      Append(context_parts, text),
                                      total_chars + Len(text))

\* Mutant of _retrieve_context: a question of one character is rejected as empty.
_retrieve_context_RejectsOneCharacter(self, question, idxs) ==
    IF Len(question) <= 1
    THEN [raised |-> "ValueError: Question must not be empty",
          idxs |-> <<>>, examined |-> 0, context |-> <<>>, chosen_chunks |-> <<>>]
    ELSE IF Min(TOP_K_CHUNKS, Len(self._docstore)) <= 0
    THEN [raised |-> "RuntimeError: No chunks available in docstore.",
          idxs |-> <<>>, examined |-> 0, context |-> <<>>, chosen_chunks |-> <<>>]
    ELSE LET loop == RetrieveLoop(self._docstore, idxs, 1, <<>>, <<>>, 0)
         IN [raised |-> "", idxs |-> idxs, examined |-> loop.examined,
             context |-> JoinParagraphs(loop.context_parts),
             chosen_chunks |-> loop.chosen_chunks]

\* RAGTutor._retrieve_context: (context, chosen_chunks), or the exception raised.
\* idxs is what self._index.search returned.
_retrieve_context(self, question, idxs) ==
    IF ~StripNonEmpty(question)
    THEN [raised |-> "ValueError: Question must not be empty",
          idxs |-> <<>>, examined |-> 0, context |-> <<>>, chosen_chunks |-> <<>>]
    ELSE IF Min(TOP_K_CHUNKS, Len(self._docstore)) <= 0
    THEN [raised |-> "RuntimeError: No chunks available in docstore.",
          idxs |-> <<>>, examined |-> 0, context |-> <<>>, chosen_chunks |-> <<>>]
    ELSE LET loop == RetrieveLoop(self._docstore, idxs, 1, <<>>, <<>>, 0)
         IN [raised |-> "", idxs |-> idxs, examined |-> loop.examined,
             context |-> JoinParagraphs(loop.context_parts),
             chosen_chunks |-> loop.chosen_chunks]

\* Mutant of answer_question: not-found is answered only when the search gave no labels.
answer_question_TestsSearchResult(self, question, idxs) ==
    LET retrieved == _retrieve_context(self, question, idxs)
    IN IF retrieved.raised # ""
       THEN [state |-> "raised", question |-> question, idxs |-> retrieved.idxs,
             examined |-> 0, context |-> <<>>, chosen_chunks |-> <<>>,
             answer |-> "", error |-> retrieved.raised, generate_calls |-> 0]
       ELSE IF retrieved.idxs = <<>>
       THEN [state |-> "returned", question |-> question, idxs |-> retrieved.idxs,
             examined |-> retrieved.examined, context |-> retrieved.context,
             chosen_chunks |-> retrieved.chosen_chunks,
             answer |-> "I could not find any relevant information",
             error |-> "", generate_calls |-> 0]
       ELSE [state |-> "returned", question |-> question, idxs |-> retrieved.idxs,
             examined |-> retrieved.examined, context |-> retrieved.context,
             chosen_chunks |-> retrieved.chosen_chunks,
             answer |-> "generated", error |-> "", generate_calls |-> 1]

\* RAGTutor.answer_question, with the call and its outcome as a request record.
answer_question(self, question, idxs) ==
    LET retrieved == _retrieve_context(self, question, idxs)
    IN IF retrieved.raised # ""
       THEN [state |-> "raised", question |-> question, idxs |-> retrieved.idxs,
             examined |-> 0, context |-> <<>>, chosen_chunks |-> <<>>,
             answer |-> "", error |-> retrieved.raised, generate_calls |-> 0]
       ELSE IF ~StripNonEmpty(retrieved.context)
       THEN [state |-> "returned", question |-> question, idxs |-> retrieved.idxs,
             examined |-> retrieved.examined, context |-> retrieved.context,
             chosen_chunks |-> retrieved.chosen_chunks,
             answer |-> "I could not find any relevant information",
             error |-> "", generate_calls |-> 0]
       ELSE [state |-> "returned", question |-> question, idxs |-> retrieved.idxs,
             examined |-> retrieved.examined, context |-> retrieved.context,
             chosen_chunks |-> retrieved.chosen_chunks,
             answer |-> "generated", error |-> "", generate_calls |-> 1]

\* A caller asks the loaded tutor a question.  A call leaves nothing behind in
\* the tutor, so one call per loaded tutor is followed.
AnswerQuestion(question) ==
    /\ tutor.state = "ready"
    /\ request = NoRequest
    /\ \E idxs \in SearchResults(tutor._index,
                                 Min(TOP_K_CHUNKS, Len(tutor._docstore))) :
           request' = answer_question(tutor, question, idxs)
    /\ UNCHANGED <<textbooks_dir, diskVars, localVars, tutor, envSteps, chunker, origin>>

\* api.ask, lines 42-46, when get_tutor() raises: the construction failure of
\* RAGTutor.__init__ is what the caller of a non-blank question gets.
AskWithoutIndex(question) ==
    /\ tutor.state = "failed"
    /\ request = NoRequest
    /\ StripNonEmpty(question)
    /\ request' = [NoRequest EXCEPT !.state = "raised", !.question = question,
                                    !.error = tutor.error]
    /\ UNCHANGED <<textbooks_dir, diskVars, localVars, tutor, envSteps, chunker, origin>>

(***************************************************************************)
(* Specification: builds run one at a time, the world changes between them. *)
(***************************************************************************)
SeqBuilders == {1}

Environment ==
    \/ \E p \in Paths : \E f \in FileStates(p) : WriteTextbook(p, f)
    \/ \E p \in Paths : RemoveTextbook(p)
    \/ \E fid \in FileIds : RemoveCachedChunks(fid)
    \/ \E fid \in FileIds : RemoveCachedEmbeddings(fid)

Build(b) ==
    \/ StartBuild(b)
    \/ ReuseCached(b)
    \/ \E o \in Outcomes : SkipFile(b, o)
    \/ \E o \in Outcomes : EmbedRaises(b, o)
    \/ \E o \in Outcomes : Recompute(b, o)
    \/ SaveFileMetadata(b)
    \/ WriteNotBuilt(b)
    \/ WriteIndex(b)
    \/ WriteDocstore(b)
    \/ WriteMetadata(b)
    \/ Return(b)

Next ==
    \/ Environment
    \/ \E b \in SeqBuilders : Build(b)
    \/ RAGTutorInit
    \/ Restart

Spec == Init /\ [][Next]_vars

(***************************************************************************)
(* Specification of retrieval: a tutor is loaded from the index files it   *)
(* finds and answers questions.  The two files are read as they are, with  *)
(* no check of one against the other, so they are drawn independently:     *)
(* chunk texts that are empty, short, and longer than the context budget,  *)
(* and an index with fewer, as many, or more rows than the docstore.       *)
(***************************************************************************)
DocTexts ==
    { <<>>, <<"x">>, <<"x", "y">>, [i \in 1..(MAX_CONTEXT_CHARS + 1) |-> "z"] }

DocstoreOf(texts) ==
    [i \in 1..Len(texts) |->
        [id |-> <<"id_a", i - 1>>, text |-> texts[i],
         source_file |-> "a.txt", chunk_index |-> i - 1]]

DocstoreFiles ==
    {NoArtifact} \cup
    {Artifact(DocstoreOf(texts)) : texts \in UNION {[1..n -> DocTexts] : n \in 0..MaxDocs}}

IndexFiles ==
    {NoArtifact} \cup
    {Artifact([i \in 1..n |-> [vec |-> <<"x">>]]) : n \in 0..(MaxDocs + 1)}

RetrievalInit ==
    /\ textbooks_dir = InitialDir
    /\ file_cache_metadata = EmptyMeta
    /\ cache_chunks = [f \in FileIds |-> NoArtifact]
    /\ cache_embeddings = [f \in FileIds |-> NoArtifact]
    /\ faiss_index \in IndexFiles
    /\ docstore \in DocstoreFiles
    /\ index_metadata = NoIndexMetadata
    /\ pc = [b \in Builders |-> "idle"]
    /\ textbooks = [b \in Builders |-> <<>>]
    /\ unsupported_by_extension = [b \in Builders |-> <<>>]
    /\ existing_meta = [b \in Builders |-> EmptyMeta]
    /\ pos = [b \in Builders |-> 1]
    /\ all_chunks = [b \in Builders |-> <<>>]
    /\ all_embeddings = [b \in Builders |-> <<>>]
    /\ runtime_unsupported = [b \in Builders |-> <<>>]
    /\ returned = [b \in Builders |-> NoIndexMetadata]
    /\ log = [b \in Builders |-> EmptyLog]
    /\ meta_at_start = [b \in Builders |-> EmptyMeta]
    /\ cache_at_start = [b \in Builders |-> EmptyCache]
    /\ tutor = NoTutor
    /\ envSteps = 0
    /\ origin = NoOrigin
    /\ request = NoRequest
    /\ chunker = NoChunker

RetrievalNext ==
    \/ RAGTutorInit
    \/ \E q \in Questions : AnswerQuestion(q)
    \/ \E q \in Questions : AskWithoutIndex(q)

RetrievalSpec == RetrievalInit /\ [][RetrievalNext]_vars

(***************************************************************************)
(* Specification of ingest.chunk_text: a call with a text, a chunk size    *)
(* and an overlap, followed statement by statement.  The arguments are any *)
(* integers (the function checks none of them) and texts of up to MaxWords *)
(* words with different whitespace between and around them.                *)
(***************************************************************************)
Letters == <<"a", "b", "c", "d", "e", "f">>

\* The k-th word of a text: one letter, or the letter twice.
WordOf(k) == IF k % 2 = 1 THEN <<Letters[k]>> ELSE <<Letters[k], Letters[k]>>

WordsOf(n) == [k \in 1..n |-> WordOf(k)]

RECURSIVE SeparatedFrom(_, _, _)
SeparatedFrom(words, i, sep) ==
    IF i > Len(words) THEN <<>>
    ELSE IF i = Len(words) THEN words[i]
    ELSE words[i] \o sep \o SeparatedFrom(words, i + 1, sep)

ChunkerTexts ==
    {pad \o SeparatedFrom(WordsOf(n), 1, sep) \o pad :
        n \in 0..MaxWords, sep \in {<<" ">>, <<" ", "\n">>}, pad \in {<<>>, <<"\t">>}}

ChunkSizes == -1..MaxChunkSize
Overlaps == -1..MaxOverlap

\* Variant: the step is the difference itself, without the floor of one word.
StepWords_NoFloor(chunk_size_words, overlap_words) == chunk_size_words - overlap_words

\* Line 129: step = max(1, chunk_size_words - overlap_words).
StepWords(chunk_size_words, overlap_words) == Max(1, chunk_size_words - overlap_words)

ChunkerInit ==
    /\ textbooks_dir = InitialDir
    /\ file_cache_metadata = EmptyMeta
    /\ cache_chunks = [f \in FileIds |-> NoArtifact]
    /\ cache_embeddings = [f \in FileIds |-> NoArtifact]
    /\ faiss_index = NoArtifact
    /\ docstore = NoArtifact
    /\ index_metadata = NoIndexMetadata
    /\ pc = [b \in Builders |-> "idle"]
    /\ textbooks = [b \in Builders |-> <<>>]
    /\ unsupported_by_extension = [b \in Builders |-> <<>>]
    /\ existing_meta = [b \in Builders |-> EmptyMeta]
    /\ pos = [b \in Builders |-> 1]
    /\ all_chunks = [b \in Builders |-> <<>>]
    /\ all_embeddings = [b \in Builders |-> <<>>]
    /\ runtime_unsupported = [b \in Builders |-> <<>>]
    /\ returned = [b \in Builders |-> NoIndexMetadata]
    /\ log = [b \in Builders |-> EmptyLog]
    /\ meta_at_start = [b \in Builders |-> EmptyMeta]
    /\ cache_at_start = [b \in Builders |-> EmptyCache]
    /\ tutor = NoTutor
    /\ envSteps = 0
    /\ origin = NoOrigin
    /\ request = NoRequest
    /\ \E text \in ChunkerTexts : \E s \in ChunkSizes : \E o \in Overlaps :
           chunker = [NoChunker EXCEPT !.pc = "called", !.text = text,
                                       !.chunk_size_words = s, !.overlap_words = o]

ChunkerFrame ==
    UNCHANGED <<textbooks_dir, diskVars, localVars, tutor, envSteps, request, origin>>

\* Lines 123-129: split the text; no words, no chunks; else set up the loop.
ChunkTextSplit ==
    /\ chunker.pc = "called"
    /\ LET words == Split(chunker.text)
       IN chunker' =
              IF words = <<>>
              THEN [chunker EXCEPT !.pc = "done"]
              ELSE [chunker EXCEPT !.pc = "loop", !.words = words, !.start = 0,
                        !.step = StepWords(chunker.chunk_size_words,
                                           chunker.overlap_words)]
    /\ ChunkerFrame

\* Variant: the window advances by the chunk size, so chunks never overlap.
ChunkTextIterate_AdvancesByChunkSize ==
    /\ chunker.pc = "loop"
    /\ chunker.start < Len(chunker.words)
    /\ LET end == chunker.start + chunker.chunk_size_words
           chunk_words == PySlice(chunker.words, chunker.start, end)
       IN /\ chunk_words # <<>>
          /\ chunker' = [chunker EXCEPT !.chunks = Append(@, Join(chunk_words)),
                                        !.start = @ + chunker.chunk_size_words,
                                        !.iterations = @ + 1]
    /\ ChunkerFrame

\* Variant: a window holds only the words up to the next window's start.
ChunkTextIterate_WindowOfStepWords ==
    /\ chunker.pc = "loop"
    /\ chunker.start < Len(chunker.words)
    /\ LET end == chunker.start + chunker.step
           chunk_words == PySlice(chunker.words, chunker.start, end)
       IN /\ chunk_words # <<>>
          /\ chunker' = [chunker EXCEPT !.chunks = Append(@, Join(chunk_words)),
                                        !.start = @ + chunker.step,
                                        !.iterations = @ + 1]
    /\ ChunkerFrame

\* Lines 131-137: one iteration that appends a chunk.
ChunkTextIterate ==
    /\ chunker.pc = "loop"
    /\ chunker.start < Len(chunker.words)
    /\ LET end == chunker.start + chunker.chunk_size_words
           chunk_words == PySlice(chunker.words, chunker.start, end)
       IN /\ chunk_words # <<>>
          /\ chunker' = [chunker EXCEPT !.chunks = Append(@, Join(chunk_words)),
                                        !.start = @ + chunker.step,
                                        !.iterations = @ + 1]
    /\ ChunkerFrame

\* Lines 134-135: the window is empty: break.
ChunkTextBreak ==
    /\ chunker.pc = "loop"
    /\ chunker.start < Len(chunker.words)
    /\ PySlice(chunker.words, chunker.start,
               chunker.start + chunker.chunk_size_words) = <<>>
    /\ chunker' = [chunker EXCEPT !.pc = "done"]
    /\ ChunkerFrame

\* Lines 131 and 139: the loop condition fails: return chunks.
ChunkTextReturn ==
    /\ chunker.pc = "loop"
    /\ chunker.start >= Len(chunker.words)
    /\ chunker' = [chunker EXCEPT !.pc = "done"]
    /\ ChunkerFrame

ChunkerNext ==
    \/ ChunkTextSplit
    \/ ChunkTextIterate
    \/ ChunkTextBreak
    \/ ChunkTextReturn

ChunkerSpec == ChunkerInit /\ [][ChunkerNext]_vars

(***************************************************************************)
(* Specification: two invocations of build_or_update_index and the start   *)
(* of a tutor, with nothing that orders them.  The program takes no lock   *)
(* and writes every artifact in place, so the steps of the two builds and  *)
(* the two reads of RAGTutor.__init__ interleave freely.  Each invocation  *)
(* runs once; the textbooks do not change meanwhile (every build then      *)
(* finds chunks in a.txt, so the not-built branch is never taken).         *)
(***************************************************************************)
\* rag_llm.py lines 34-43: the existence test and the read of the docstore.
TutorLoadDocstore ==
    /\ tutor.state = "none"
    /\ tutor' =
         IF ~faiss_index.exists \/ ~docstore.exists
         THEN [state |-> "failed", error |-> "Vector index not found",
               _docstore |-> <<>>, _index |-> <<>>]
         ELSE IF docstore.data = <<>>
         THEN [state |-> "failed", error |-> "Vector index is empty",
               _docstore |-> <<>>, _index |-> <<>>]
         ELSE [state |-> "loading", error |-> "",
               _docstore |-> docstore.data, _index |-> <<>>]
    /\ origin' = [origin EXCEPT
           !.tutor_docstore = IF tutor'.state = "loading" THEN origin.docstore ELSE 0]
    /\ UNCHANGED <<textbooks_dir, diskVars, localVars, envSteps, request, chunker>>

\* rag_llm.py line 45: faiss.read_index, a second read some time later.
TutorReadIndex ==
    /\ tutor.state = "loading"
    /\ tutor' = [tutor EXCEPT !.state = "ready", !._index = faiss_index.data]
    /\ origin' = [origin EXCEPT !.tutor_index = origin.faiss_index]
    /\ UNCHANGED <<textbooks_dir, diskVars, localVars, envSteps, request, chunker>>

ConcurrentNext ==
    \/ \E b \in Builders : StartBuild(b)
    \/ \E b \in Builders : ReuseCached(b)
    \/ \E b \in Builders : \E o \in Outcomes : SkipFile(b, o)
    \/ \E b \in Builders : \E o \in Outcomes : EmbedRaises(b, o)
    \/ \E b \in Builders : \E o \in Outcomes : Recompute(b, o)
    \/ \E b \in Builders : SaveFileMetadata(b)
    \/ \E b \in Builders : WriteIndex(b)
    \/ \E b \in Builders : WriteDocstore(b)
    \/ \E b \in Builders : WriteMetadata(b)
    \/ TutorLoadDocstore
    \/ TutorReadIndex

ConcurrentSpec == Init /\ [][ConcurrentNext]_vars

(***************************************************************************)
(* Specification: the builds are invoked one after the other (a build      *)
(* starts only when no other is running), and a tutor starts at any time,  *)
(* also while the second build, the rebuild, is writing.                   *)
(***************************************************************************)
StartBuildAlone(b) ==
    /\ \A other \in Builders \ {b} : pc[other] \in {"idle", "done", "raised"}
    /\ StartBuild(b)

RebuildNext ==
    \/ \E b \in Builders : StartBuildAlone(b)
    \/ \E b \in Builders : ReuseCached(b)
    \/ \E b \in Builders : \E o \in Outcomes : SkipFile(b, o)
    \/ \E b \in Builders : \E o \in Outcomes : EmbedRaises(b, o)
    \/ \E b \in Builders : \E o \in Outcomes : Recompute(b, o)
    \/ \E b \in Builders : SaveFileMetadata(b)
    \/ \E b \in Builders : WriteIndex(b)
    \/ \E b \in Builders : WriteDocstore(b)
    \/ \E b \in Builders : WriteMetadata(b)
    \/ TutorLoadDocstore
    \/ TutorReadIndex

RebuildSpec == Init /\ [][RebuildNext]_vars

(***************************************************************************)
(* Specification: builds one at a time over textbooks that are edited,     *)
(* reverted and removed between them, where a file's fingerprint follows   *)
(* its content (a text always comes with the same mtime_ns, and texts of   *)
(* one size come with different ones), and where a build may be            *)
(* interrupted inside its file loop, before line 173 persists the          *)
(* fingerprint map.                                                        *)
(***************************************************************************)
\* The mtime_ns a text is stored with: the two texts of size 1 differ in it.
MtimeOfText(text) == IF text = <<" ">> THEN 2 ELSE 1

EditTextbook(p, text) ==
    /\ Suffix(p) \in SUPPORTED_EXTENSIONS
    /\ WriteTextbook(p, [exists |-> TRUE, content |-> text, mtime_ns |-> MtimeOfText(text)])

\* The process is stopped (a signal, a full disk) inside the loop of lines 93-171.
Interrupt(b) ==
    /\ pc[b] = "loop"
    /\ pc' = [pc EXCEPT ![b] = "raised"]
    /\ UNCHANGED <<textbooks_dir, diskVars, textbooks, unsupported_by_extension,
                   existing_meta, pos, all_chunks, all_embeddings, runtime_unsupported,
                   returned, log, meta_at_start, cache_at_start, tutor, envSteps,
                   request, chunker, origin>>

EditNext ==
    \/ \E p \in Paths : \E text \in Texts : EditTextbook(p, text)
    \/ \E p \in Paths : RemoveTextbook(p)
    \/ \E b \in SeqBuilders : Build(b)
    \/ \E b \in SeqBuilders : Interrupt(b)

EditSpec == Init /\ [][EditNext]_vars

(***************************************************************************)
(* Specification: a build, after any history of edits and builds, is       *)
(* followed at once by a second build over the same directory.  Builder 1  *)
(* runs the history and the first build; when it has completed, builder 2  *)
(* runs the second build while builder 1 still holds what it returned.     *)
(* The loaders behave in the second build as they did in the first (pypdf  *)
(* is not installed or removed between the two).                           *)
(***************************************************************************)
InTurn(b) == IF b = 1 THEN pc[2] = "idle" ELSE pc[1] = "done"

MissingDependencyIn(unsupported, p) ==
    \E i \in 1..Len(unsupported) :
        unsupported[i] = [path |-> p,
                          reason |-> "Missing dependency 'pypdf' for PDF support"]

LoaderAsBefore(b, outcome) ==
    b = 1 \/ (outcome = "missing_dependency"
                  <=> MissingDependencyIn(runtime_unsupported[1], CurrentPath(b)))

BuildInTurn(b) ==
    \/ InTurn(b) /\ StartBuild(b)
    \/ InTurn(b) /\ ReuseCached(b)
    \/ \E o \in Outcomes : InTurn(b) /\ InLoop(b) /\ LoaderAsBefore(b, o) /\ SkipFile(b, o)
    \/ \E o \in Outcomes : InTurn(b) /\ InLoop(b) /\ LoaderAsBefore(b, o) /\ EmbedRaises(b, o)
    \/ \E o \in Outcomes : InTurn(b) /\ InLoop(b) /\ LoaderAsBefore(b, o) /\ Recompute(b, o)
    \/ InTurn(b) /\ SaveFileMetadata(b)
    \/ InTurn(b) /\ WriteNotBuilt(b)
    \/ InTurn(b) /\ WriteIndex(b)
    \/ InTurn(b) /\ WriteDocstore(b)
    \/ InTurn(b) /\ WriteMetadata(b)
    \/ InTurn(b) /\ Return(b)

TwiceNext ==
    \/ \E p \in Paths : \E text \in Texts : EditTextbook(p, text)
    \/ \E p \in Paths : RemoveTextbook(p)
    \/ \E fid \in FileIds : RemoveCachedChunks(fid)
    \/ \E fid \in FileIds : RemoveCachedEmbeddings(fid)
    \/ \E b \in Builders : BuildInTurn(b)

TwiceSpec == Init /\ [][TwiceNext]_vars

(***************************************************************************)
(* Vocabulary of the properties.                                           *)
(***************************************************************************)
Range(seq) == {seq[i] : i \in 1..Len(seq)}

\* A build that has returned its metadata.
Completed(b) == pc[b] = "done"

\* The files whose loop iteration the build has been through.
Processed(b) ==
    IF pc[b] = "idle" THEN {}
    ELSE {textbooks[b][i] : i \in 1..Min(Len(textbooks[b]),
                                         IF pc[b] = "raised" THEN pos[b] ELSE pos[b] - 1)}

\* The builder takes a step of its loop in this transition.
LoopStep(b) == InLoop(b) /\ (pos'[b] # pos[b] \/ pc'[b] # pc[b])

\* The chunk records the file's present text yields.
FreshChunks(p) ==
    PerFileChunks(p, chunk_text(textbooks_dir[p].content, ChunkSizeWords, ChunkOverlapWords))

FreshEmbeddings(p) ==
    Encode(chunk_text(textbooks_dir[p].content, ChunkSizeWords, ChunkOverlapWords))

\* The records of one file within a docstore, in docstore order.
RECURSIVE RecordsOf(_, _)
RecordsOf(records, p) ==
    IF records = <<>> THEN <<>>
    ELSE IF Head(records).source_file = p
         THEN <<Head(records)>> \o RecordsOf(Tail(records), p)
         ELSE RecordsOf(Tail(records), p)

\* The paths listed in a build's unsupported_files.
ListedUnsupported(b) == {returned[b].unsupported_files[i].path :
                            i \in 1..Len(returned[b].unsupported_files)}

\* The fingerprint on disk when the build started equals the file's stat.
SameFingerprint(b, p) ==
    /\ meta_at_start[b][p].present
    /\ meta_at_start[b][p].mtime_ns = textbooks_dir[p].mtime_ns
    /\ meta_at_start[b][p].size = Len(textbooks_dir[p].content)

(***************************************************************************)
(* C1: after every successful build that yields N >= 1 chunks the          *)
(* persisted docstore has N records, the index N rows, the metadata says   *)
(* total_chunks = N, and row i of the index is the embedding of            *)
(* docstore[i], also when some files were reused and others recomputed.    *)
(***************************************************************************)
C1_DocstoreMatchesIndex ==
    \A b \in Builders :
        (Completed(b) /\ returned[b].index_built) =>
            LET N == returned[b].total_chunks
            IN /\ N >= 1
               /\ docstore.exists /\ faiss_index.exists
               /\ Len(docstore.data) = N
               /\ Len(faiss_index.data) = N
               /\ index_metadata.total_chunks = N
               /\ \A i \in 1..N :
                      faiss_index.data[i] = Encode(<<docstore.data[i].text>>)[1]

C1_Witness ==
    \E b \in Builders :
        /\ Completed(b) /\ returned[b].index_built
        /\ log[b].reused # {} /\ log[b].saved # {}
        /\ Len(docstore.data) >= 3

(***************************************************************************)
(* C2: a file whose mtime_ns and size equal its persisted fingerprint      *)
(* record and whose two cache artifacts exist is reused verbatim: the      *)
(* build appends the cached chunks and embeddings and calls neither the    *)
(* extractor, the chunker nor the embedder for it.                         *)
(***************************************************************************)
C2_UnchangedFileIsReused ==
    [][\A b \in Builders :
         (/\ LoopStep(b)
          /\ file_cache_metadata[CurrentPath(b)].present
          /\ file_cache_metadata[CurrentPath(b)].mtime_ns
                 = textbooks_dir[CurrentPath(b)].mtime_ns
          /\ file_cache_metadata[CurrentPath(b)].size
                 = Len(textbooks_dir[CurrentPath(b)].content)
          /\ cache_chunks[_compute_file_id(CurrentPath(b))].exists
          /\ cache_embeddings[_compute_file_id(CurrentPath(b))].exists)
         =>
         (/\ all_chunks'[b] = all_chunks[b]
                 \o cache_chunks[_compute_file_id(CurrentPath(b))].data
          /\ all_embeddings'[b] = Append(all_embeddings[b],
                 cache_embeddings[_compute_file_id(CurrentPath(b))].data)
          /\ log'[b].extracted = log[b].extracted
          /\ log'[b].chunked = log[b].chunked
          /\ log'[b].embedded = log[b].embedded
          /\ UNCHANGED <<cache_chunks, cache_embeddings>>)]_vars

C2_Witness ==
    \E b \in Builders :
        /\ Completed(b)
        /\ "a.txt" \in log[b].reused
        /\ "a.txt" \notin log[b].embedded
        /\ RecordsOf(docstore.data, "a.txt") = cache_chunks["id_a"].data

(***************************************************************************)
(* C3, as stated: when the size of a previously indexed file changes       *)
(* between two builds, the second build re-chunks and re-embeds it,        *)
(* overwrites its cache entry, and the rebuilt docstore and index hold     *)
(* exactly the file's new chunks and embeddings.                           *)
(***************************************************************************)
SizeChanged(b, p) ==
    /\ p \in Range(textbooks[b])
    /\ meta_at_start[b][p].present
    /\ meta_at_start[b][p].size # Len(textbooks_dir[p].content)

ReplacedByNewChunks(b, p) ==
    /\ p \in log[b].chunked /\ p \in log[b].embedded
    /\ cache_chunks[_compute_file_id(p)] = Artifact(FreshChunks(p))
    /\ cache_embeddings[_compute_file_id(p)] = Artifact(FreshEmbeddings(p))
    /\ log[b].wrote_docstore /\ log[b].wrote_index
    /\ RecordsOf(docstore.data, p) = FreshChunks(p)
    /\ \A i \in 1..Len(docstore.data) :
           docstore.data[i].source_file = p =>
               faiss_index.data[i] = [vec |-> docstore.data[i].text]

C3_SizeChangeReplacesChunks ==
    \A b \in Builders : \A p \in Paths :
        (Completed(b) /\ SizeChanged(b, p)) => ReplacedByNewChunks(b, p)

(***************************************************************************)
(* C3, amended: when the size of a previously indexed file changes between *)
(* two builds and the second build completes without listing the file as   *)
(* unsupported (its text is extracted and not blank), it re-chunks         *)
(* and re-embeds it, overwrites its cache entry, and the rebuilt docstore  *)
(* and index hold exactly the file's new chunks and embeddings.            *)
(***************************************************************************)
C3_SizeChangeReplacesReadableFile ==
    \A b \in Builders : \A p \in Paths :
        (Completed(b) /\ SizeChanged(b, p) /\ p \notin ListedUnsupported(b))
            => ReplacedByNewChunks(b, p)

C3_Witness ==
    \E b \in Builders :
        /\ Completed(b)
        /\ SizeChanged(b, "a.txt")
        /\ "a.txt" \notin ListedUnsupported(b)
        /\ Len(RecordsOf(docstore.data, "a.txt")) = 1

C5_NoTutorOverUnbuiltIndex ==
    (index_metadata.exists /\ ~index_metadata.index_built) => tutor.state # "ready"

(***************************************************************************)
(* C6: a build that ends with zero chunks in total writes index metadata   *)
(* with index_built = false and total_chunks = 0, writes neither the       *)
(* vector index nor the docstore, and returns that metadata normally.      *)
(***************************************************************************)
C6_ZeroChunksWritesOnlyMetadata ==
    \A b \in Builders :
        /\ (Completed(b) /\ all_chunks[b] = <<>>) =>
               /\ index_metadata.exists
               /\ ~index_metadata.index_built
               /\ index_metadata.total_chunks = 0
               /\ returned[b] = index_metadata
               /\ ~log[b].wrote_index
               /\ ~log[b].wrote_docstore
        /\ (pc[b] \in {"assemble", "write_docstore", "write_metadata"}
                /\ all_chunks[b] = <<>>) =>
               (pc[b] = "assemble" /\ all_embeddings[b] = <<>>)

C6_Witness ==
    \E b \in Builders :
        /\ Completed(b) /\ all_chunks[b] = <<>>
        /\ textbooks[b] # <<>>
        /\ faiss_index.exists /\ docstore.exists

(***************************************************************************)
(* C7: an embedder failure for one file is recorded for that file and the  *)
(* file is skipped; it never aborts the build.                             *)
(***************************************************************************)
C7_EmbedFailureDoesNotAbort ==
    \A b \in Builders : log[b].embed_failed => pc[b] # "raised"

(***************************************************************************)
(* C8: a supported file whose extraction fails or yields blank text is     *)
(* listed in unsupported_files with its reason and contributes no chunk;   *)
(* the build is not aborted by it, lists the files of other extensions     *)
(* too, and indexes every supported file it does not list.                 *)
(***************************************************************************)
Blank(text) == text = <<>> \/ \A i \in 1..Len(text) : text[i] = " "

ListedWith(b, p, reason) ==
    \E i \in 1..Len(returned[b].unsupported_files) :
        returned[b].unsupported_files[i] = [path |-> p, reason |-> reason]

C8_UnreadableFileIsListedAndSkipped ==
    \A b \in Builders :
        /\ Completed(b) =>
               /\ index_metadata = returned[b]
               /\ \A p \in Range(textbooks[b]) :
                      /\ (p \in log[b].extracted /\ p \notin log[b].chunked) =>
                             /\ \/ ListedWith(b, p, "File contains no extractable text")
                                \/ ListedWith(b, p,
                                       "Missing dependency 'pypdf' for PDF support")
                             /\ RecordsOf(all_chunks[b], p) = <<>>
                      /\ (p \in log[b].extracted /\ Blank(textbooks_dir[p].content)
                              /\ Suffix(p) = ".txt") =>
                             ListedWith(b, p, "File contains no extractable text")
                      /\ p \notin ListedUnsupported(b) =>
                             /\ log[b].wrote_docstore /\ log[b].wrote_index
                             /\ RecordsOf(docstore.data, p) # <<>>
               /\ \A q \in Range(unsupported_by_extension[b]) :
                      ListedWith(b, q, "extension_not_in_[txt,pdf,doc,docx]")
        /\ pc[b] = "raised" => CurrentPath(b) \in log[b].chunked

C8_Witness ==
    \E b \in Builders :
        /\ Completed(b)
        /\ ListedWith(b, "a.txt", "File contains no extractable text")
        /\ ListedWith(b, "c.bin", "extension_not_in_[txt,pdf,doc,docx]")
        /\ textbooks_dir["a.txt"].content = <<>>
        /\ returned[b].index_built
        /\ RecordsOf(docstore.data, "b.pdf") # <<>>

(***************************************************************************)
(* C9: the cache load misses whenever the chunk artifact or the embedding  *)
(* artifact of the file id is absent; with one of them absent the build    *)
(* uses neither and recomputes chunks and embeddings from the source text. *)
(***************************************************************************)
C9_PartialCacheIsAMiss ==
    [][\A b \in Builders :
         (/\ LoopStep(b)
          /\ \/ ~cache_chunks[_compute_file_id(CurrentPath(b))].exists
             \/ ~cache_embeddings[_compute_file_id(CurrentPath(b))].exists)
         =>
         (/\ CurrentPath(b) \in log'[b].extracted
          /\ CurrentPath(b) \notin log'[b].reused
          /\ \/ /\ all_chunks'[b] = all_chunks[b]
                /\ all_embeddings'[b] = all_embeddings[b]
                /\ UNCHANGED <<cache_chunks, cache_embeddings>>
             \/ /\ all_chunks'[b] = all_chunks[b] \o FreshChunks(CurrentPath(b))
                /\ all_embeddings'[b] =
                       Append(all_embeddings[b], FreshEmbeddings(CurrentPath(b)))
                /\ cache_chunks'[_compute_file_id(CurrentPath(b))] =
                       Artifact(FreshChunks(CurrentPath(b)))
                /\ cache_embeddings'[_compute_file_id(CurrentPath(b))] =
                       Artifact(FreshEmbeddings(CurrentPath(b))))]_vars

C9_Witness ==
    \E b \in Builders : \E p \in Processed(b) :
        /\ Completed(b)
        /\ SameFingerprint(b, p)
        /\ p \in log[b].tried
        /\ p \in log[b].saved
        /\ RecordsOf(docstore.data, p) = FreshChunks(p)

(***************************************************************************)
(* C10: a build creates or changes the fingerprint record of a file only   *)
(* when, in that build, the file was extracted, chunked, embedded and its  *)
(* cache entry saved; the record of a file that was reused, failed         *)
(* extraction or gave no chunks stays as it was before the build.          *)
(***************************************************************************)
C10_RecordChangesOnlyAfterRecompute ==
    \A b \in Builders :
        pc[b] # "idle" =>
            \A p \in Paths :
                /\ file_cache_metadata[p] # meta_at_start[b][p] =>
                       /\ p \in log[b].extracted /\ p \in log[b].chunked
                       /\ p \in log[b].embedded /\ p \in log[b].saved
                       /\ cache_chunks[_compute_file_id(p)].exists
                       /\ cache_embeddings[_compute_file_id(p)].exists
                       /\ file_cache_metadata[p] =
                              [present |-> TRUE,
                               mtime_ns |-> textbooks_dir[p].mtime_ns,
                               size |-> Len(textbooks_dir[p].content)]
                /\ (p \in log[b].reused \/ p \notin log[b].chunked) =>
                       file_cache_metadata[p] = meta_at_start[b][p]

C10_Witness ==
    \E b \in Builders :
        /\ Completed(b)
        /\ file_cache_metadata["a.txt"] # meta_at_start[b]["a.txt"]
        /\ meta_at_start[b]["a.txt"].present
        /\ "b.pdf" \in ListedUnsupported(b)
        /\ meta_at_start[b]["b.pdf"].present
        /\ file_cache_metadata["b.pdf"] = meta_at_start[b]["b.pdf"]

(***************************************************************************)
(* C11: if the embedder call fails for a file during a build, the file's   *)
(* saved cache artifacts (chunk list and embedding matrix) and its         *)
(* persisted fingerprint record are exactly what they were when the build  *)
(* started.                                                                *)
(***************************************************************************)
C11_EmbedFailureLeavesCacheUntouched ==
    \A b \in Builders :
        log[b].embed_failed =>
            LET p == CurrentPath(b)
                fid == _compute_file_id(p)
            IN /\ cache_chunks[fid] = cache_at_start[b].chunks[fid]
               /\ cache_embeddings[fid] = cache_at_start[b].embeddings[fid]
               /\ file_cache_metadata[p] = meta_at_start[b][p]

C11_Witness ==
    \E b \in Builders :
        /\ log[b].embed_failed
        /\ pc[b] = "raised"
        /\ meta_at_start[b][CurrentPath(b)].present
        /\ cache_at_start[b].chunks[_compute_file_id(CurrentPath(b))].exists
        /\ cache_at_start[b].embeddings[_compute_file_id(CurrentPath(b))].exists
        /\ cache_chunks[_compute_file_id(CurrentPath(b))].data # FreshChunks(CurrentPath(b))
        /\ log[b].saved # {}

(***************************************************************************)
(* C12: the docstore a build writes is the concatenation, in file-         *)
(* discovery order, of the chunk lists of the files it indexed, reused     *)
(* from the cache or freshly computed; each file's chunks are contiguous   *)
(* and carry chunk_index 0, 1, 2, ... in that order.                       *)
(***************************************************************************)
\* The chunk list a build has for a file it went through: the cached one of a
\* reused file, the fresh one of a recomputed file, none for a skipped file.
ChunkListOf(b, p) ==
    IF p \in log[b].reused THEN cache_at_start[b].chunks[_compute_file_id(p)].data
    ELSE IF p \in log[b].saved THEN FreshChunks(p)
    ELSE <<>>

RECURSIVE ConcatChunkLists(_, _)
ConcatChunkLists(b, paths) ==
    IF paths = <<>> THEN <<>>
    ELSE ChunkListOf(b, Head(paths)) \o ConcatChunkLists(b, Tail(paths))

C12_DocstoreIsConcatenationInDiscoveryOrder ==
    \A b \in Builders :
        log[b].wrote_docstore =>
            /\ docstore.data = ConcatChunkLists(b, textbooks[b])
            /\ \A p \in Paths :
                   LET own == RecordsOf(docstore.data, p)
                   IN \A i \in 1..Len(own) : own[i].chunk_index = i - 1
            /\ \A i \in 1..Len(docstore.data) : \A j \in i..Len(docstore.data) :
                   docstore.data[i].source_file = docstore.data[j].source_file =>
                       \A k \in i..j :
                           docstore.data[k].source_file = docstore.data[i].source_file

C12_Witness ==
    \E b \in Builders :
        /\ log[b].wrote_docstore
        /\ textbooks[b] = <<"a.txt", "b.pdf">>
        /\ "a.txt" \in log[b].reused
        /\ "b.pdf" \in log[b].saved
        /\ Len(RecordsOf(docstore.data, "a.txt")) = 2
        /\ Len(RecordsOf(docstore.data, "b.pdf")) = 2

(***************************************************************************)
(* C13: after a completed build every file found under the source          *)
(* directory either has at least one chunk in the build's chunk list or is *)
(* listed in unsupported_files with a reason, never both and never         *)
(* neither; a file of an unsupported extension is never extracted,         *)
(* chunked or embedded.                                                    *)
(***************************************************************************)
ListedWithReason(b, p) ==
    \E i \in 1..Len(returned[b].unsupported_files) :
        /\ returned[b].unsupported_files[i].path = p
        /\ returned[b].unsupported_files[i].reason # ""

C13_EveryFileIndexedOrListed ==
    \A b \in Builders :
        /\ Completed(b) =>
               \A p \in Paths :
                   textbooks_dir[p].exists =>
                       /\ (RecordsOf(all_chunks[b], p) # <<>>) <=> ~ListedWithReason(b, p)
                       /\ (RecordsOf(all_chunks[b], p) # <<>>) <=> (p \notin ListedUnsupported(b))
                       /\ returned[b].index_built =>
                              RecordsOf(docstore.data, p) = RecordsOf(all_chunks[b], p)
        /\ \A p \in Paths :
               Suffix(p) \notin SUPPORTED_EXTENSIONS =>
                   /\ p \notin log[b].tried /\ p \notin log[b].reused
                   /\ p \notin log[b].extracted /\ p \notin log[b].chunked
                   /\ p \notin log[b].embedded /\ p \notin log[b].saved

C13_Witness ==
    \E b \in Builders :
        /\ Completed(b)
        /\ RecordsOf(all_chunks[b], "a.txt") # <<>>
        /\ ListedWith(b, "b.pdf", "Missing dependency 'pypdf' for PDF support")
        /\ ListedWith(b, "c.bin", "extension_not_in_[txt,pdf,doc,docx]")
        /\ "c.bin" \notin log[b].extracted

(***************************************************************************)
(* C14, as stated: after a source file is deleted its fingerprint record   *)
(* persists across later builds, and its chunks are excluded from the      *)
(* rebuilt index only if its cache files are missing: while its cache      *)
(* artifacts exist, its chunks remain part of the rebuilt index.           *)
(***************************************************************************)
\* The file was indexed once and is gone from the directory during build b.
DeletedBeforeBuild(b, p) ==
    /\ pc[b] # "idle"
    /\ ~textbooks_dir[p].exists
    /\ meta_at_start[b][p].present

CacheEntryExists(p) ==
    /\ cache_chunks[_compute_file_id(p)].exists
    /\ cache_embeddings[_compute_file_id(p)].exists

C14_DeletedFileStaysIndexedWhileCached ==
    \A b \in Builders : \A p \in Paths :
        DeletedBeforeBuild(b, p) =>
            /\ file_cache_metadata[p] = meta_at_start[b][p]
            /\ log[b].wrote_docstore =>
                   (RecordsOf(docstore.data, p) = <<>> <=> ~CacheEntryExists(p))

(***************************************************************************)
(* C14, amended: after a source file is deleted its fingerprint record     *)
(* persists across later builds, and its chunks are excluded from the      *)
(* chunk list of every later build and from every docstore and index a     *)
(* later build writes, whether or not its cache files still exist.         *)
(***************************************************************************)
C14_DeletedFileIsExcludedRecordPersists ==
    \A b \in Builders : \A p \in Paths :
        DeletedBeforeBuild(b, p) =>
            /\ file_cache_metadata[p] = meta_at_start[b][p]
            /\ p \notin log[b].tried /\ p \notin log[b].reused
            /\ RecordsOf(all_chunks[b], p) = <<>>
            /\ log[b].wrote_docstore => RecordsOf(docstore.data, p) = <<>>
            /\ (log[b].wrote_index /\ log[b].wrote_docstore) =>
                   Len(faiss_index.data) = Len(docstore.data)

C14_Witness ==
    \E b \in Builders :
        /\ Completed(b)
        /\ DeletedBeforeBuild(b, "a.txt")
        /\ CacheEntryExists("a.txt")
        /\ log[b].wrote_docstore /\ log[b].wrote_index
        /\ RecordsOf(docstore.data, "a.txt") = <<>>
        /\ RecordsOf(docstore.data, "b.pdf") # <<>>
        /\ file_cache_metadata["a.txt"].present

(***************************************************************************)
(* C15: in every state in which a build can load it, a cache entry (the    *)
(* chunk list and the embedding matrix under one file id) has as many      *)
(* chunks as embedding rows and the chunk at position i has chunk_index i; *)
(* this holds after every save, also one that overwrites an older entry of *)
(* a different length.                                                     *)
(***************************************************************************)
\* _load_cached_chunks_and_embeddings would return the entry.
Loadable(fid) == cache_chunks[fid].exists /\ cache_embeddings[fid].exists

C15_CacheEntryIsAligned ==
    \A fid \in FileIds :
        Loadable(fid) =>
            /\ Len(cache_chunks[fid].data) = Len(cache_embeddings[fid].data)
            /\ \A i \in 1..Len(cache_chunks[fid].data) :
                   /\ cache_chunks[fid].data[i].chunk_index = i - 1
                   /\ cache_embeddings[fid].data[i] =
                          Encode(<<cache_chunks[fid].data[i].text>>)[1]

C15_Witness ==
    \E b \in Builders :
        /\ "a.txt" \in log[b].saved
        /\ Loadable("id_a")
        /\ Len(cache_at_start[b].chunks["id_a"].data) = 2
        /\ cache_at_start[b].embeddings["id_a"].exists
        /\ Len(cache_chunks["id_a"].data) = 1

(***************************************************************************)
(* Vocabulary of the retrieval properties.                                 *)
(***************************************************************************)
\* answer_question got a context back from _retrieve_context.
Retrieved == request.state = "returned"

\* The candidate at a rank is usable: its index is in range and its text not empty.
UsableRank(r) ==
    /\ request.idxs[r] >= 0
    /\ request.idxs[r] < Len(tutor._docstore)
    /\ tutor._docstore[request.idxs[r] + 1].text # <<>>

UsableRanks == {r \in 1..Len(request.idxs) : UsableRank(r)}

CandidateAt(r) == tutor._docstore[request.idxs[r] + 1]

FirstUsableRank == CHOOSE r \in UsableRanks : \A q \in UsableRanks : r <= q

(***************************************************************************)
(* C16: whenever a ranked candidate is usable (in range, text not empty),  *)
(* the highest-ranked usable candidate is in the returned context and      *)
(* chunk list, even if its text alone is longer than max_context_chars;    *)
(* the result is empty only when no candidate is usable.                   *)
(***************************************************************************)
C16_FirstUsableCandidateIsIncluded ==
    Retrieved =>
        /\ UsableRanks # {} =>
               /\ request.chosen_chunks # <<>>
               /\ request.chosen_chunks[1] = CandidateAt(FirstUsableRank)
               /\ Len(request.context) >= Len(CandidateAt(FirstUsableRank).text)
               /\ SubSeq(request.context, 1, Len(CandidateAt(FirstUsableRank).text))
                      = CandidateAt(FirstUsableRank).text
        /\ request.chosen_chunks = <<>> <=> UsableRanks = {}
        /\ request.context = <<>> <=> UsableRanks = {}

C16_Witness ==
    /\ Retrieved
    /\ UsableRanks # {}
    /\ FirstUsableRank = 2
    /\ Len(CandidateAt(FirstUsableRank).text) > MAX_CONTEXT_CHARS
    /\ request.chosen_chunks = <<CandidateAt(FirstUsableRank)>>
    /\ Cardinality(UsableRanks) >= 2

(***************************************************************************)
(* C17: retrieval examines min(top_k, total_chunks) candidates in ranked   *)
(* order and accumulates them until the first candidate whose text would   *)
(* push the running character total over max_context_chars while the       *)
(* context is non-empty; it stops there, so the included chunks are a      *)
(* prefix of the usable ranked candidates and no lower-ranked candidate is *)
(* included after a higher-ranked one was rejected for the budget, even if *)
(* it would fit.                                                           *)
(***************************************************************************)
RECURSIVE UsableRanksFrom(_)
\* The usable ranks from rank r on, ascending.
UsableRanksFrom(r) ==
    IF r > Len(request.idxs) THEN <<>>
    ELSE (IF UsableRank(r) THEN <<r>> ELSE <<>>) \o UsableRanksFrom(r + 1)

RECURSIVE TotalChars(_)
TotalChars(chunks) ==
    IF chunks = <<>> THEN 0 ELSE Len(Head(chunks).text) + TotalChars(Tail(chunks))

C17_IncludedChunksArePrefixCutAtBudget ==
    Retrieved =>
        LET usable == UsableRanksFrom(1)
            chosen == request.chosen_chunks
            n == Len(chosen)
        IN /\ Len(request.idxs) = Min(TOP_K_CHUNKS, Len(tutor._docstore))
           /\ n <= Len(usable)
           /\ \A i \in 1..n : chosen[i] = CandidateAt(usable[i])
           /\ \A i \in 2..n : TotalChars(SubSeq(chosen, 1, i)) <= MAX_CONTEXT_CHARS
           /\ n < Len(usable) =>
                  /\ n >= 1
                  /\ TotalChars(chosen) + Len(CandidateAt(usable[n + 1]).text)
                         > MAX_CONTEXT_CHARS
                  /\ request.examined = usable[n + 1]
           /\ n = Len(usable) => request.examined = Len(request.idxs)

C17_Witness ==
    /\ Retrieved
    /\ Len(UsableRanksFrom(1)) = 3
    /\ Len(request.chosen_chunks) = 1
    /\ request.examined = 2
    /\ TotalChars(request.chosen_chunks) + Len(CandidateAt(3).text) <= MAX_CONTEXT_CHARS

(***************************************************************************)
(* C18, as stated: the context string handed to the generator has at most  *)
(* max_context_chars characters, the only exception being a context that   *)
(* consists of the single first candidate whose text alone is longer than  *)
(* the budget.                                                             *)
(***************************************************************************)
\* The context is the text of one chunk that is longer than the budget.
SingleOversizedChunk ==
    /\ Len(request.chosen_chunks) = 1
    /\ Len(request.chosen_chunks[1].text) > MAX_CONTEXT_CHARS

C18_ContextStringWithinBudget ==
    (Retrieved /\ request.generate_calls > 0) =>
        \/ Len(request.context) <= MAX_CONTEXT_CHARS
        \/ SingleOversizedChunk

(***************************************************************************)
(* C18, amended: the chunk texts in the context handed to the generator    *)
(* have at most max_context_chars characters in total, the only exception  *)
(* being a context that consists of the single first candidate whose text  *)
(* alone is longer than the budget; the context string is longer than the  *)
(* texts by the two-character separator between consecutive chunks.        *)
(***************************************************************************)
C18_ChunkTextsWithinBudget ==
    Retrieved =>
        /\ \/ TotalChars(request.chosen_chunks) <= MAX_CONTEXT_CHARS
           \/ SingleOversizedChunk
        /\ request.chosen_chunks # <<>> =>
               Len(request.context) =
                   TotalChars(request.chosen_chunks)
                       + 2 * (Len(request.chosen_chunks) - 1)

C18_Witness ==
    /\ Retrieved
    /\ request.generate_calls > 0
    /\ Len(request.chosen_chunks) = 2
    /\ TotalChars(request.chosen_chunks) = MAX_CONTEXT_CHARS
    /\ Len(request.context) = MAX_CONTEXT_CHARS + 2

(***************************************************************************)
(* C19: for every retrieval the returned context is the texts of the       *)
(* returned chunk records joined by the paragraph separator, in the order  *)
(* of the returned list (rank order); every chunk of the list contributes  *)
(* its text exactly once and the context holds no other text.              *)
(***************************************************************************)
RECURSIVE TextsJoined(_)
\* The texts of the chunk records, a blank line between consecutive ones.
TextsJoined(chunks) ==
    IF chunks = <<>> THEN <<>>
    ELSE IF Len(chunks) = 1 THEN chunks[1].text
    ELSE chunks[1].text \o <<"\n", "\n">> \o TextsJoined(Tail(chunks))

C19_ContextIsJoinOfReturnedChunks ==
    Retrieved =>
        /\ request.context = TextsJoined(request.chosen_chunks)
        /\ \E ranks \in [1..Len(request.chosen_chunks) -> 1..Len(request.idxs)] :
               /\ \A i \in 1..Len(request.chosen_chunks) :
                      /\ UsableRank(ranks[i])
                      /\ request.chosen_chunks[i] = CandidateAt(ranks[i])
               /\ \A i \in 1..Len(request.chosen_chunks) :
                      \A j \in (i + 1)..Len(request.chosen_chunks) :
                          ranks[i] < ranks[j]

C19_Witness ==
    /\ Retrieved
    /\ Len(request.chosen_chunks) = 2
    /\ request.idxs[1] > request.idxs[2]
    /\ request.chosen_chunks[1].text # request.chosen_chunks[2].text
    /\ request.context =
           request.chosen_chunks[1].text \o <<"\n", "\n">> \o request.chosen_chunks[2].text

(***************************************************************************)
(* C20: when retrieval against a built index yields no usable candidate    *)
(* (an empty context), answer_question returns the user-facing 'no         *)
(* relevant information found' message: it raises no error and does not    *)
(* invoke the generator.                                                   *)
(***************************************************************************)
C20_NoUsableCandidateAnswersNotFound ==
    (/\ tutor.state = "ready"
     /\ request.state # "none"
     /\ StripNonEmpty(request.question)
     /\ UsableRanks = {})
    =>
    (/\ request.state = "returned"
     /\ request.error = ""
     /\ request.context = <<>>
     /\ request.chosen_chunks = <<>>
     /\ request.answer = "I could not find any relevant information"
     /\ request.generate_calls = 0)

C20_Witness ==
    /\ tutor.state = "ready"
    /\ request.state = "returned"
    /\ StripNonEmpty(request.question)
    /\ UsableRanks = {}
    /\ Len(request.idxs) >= 2
    /\ \E r \in 1..Len(request.idxs) :
           /\ request.idxs[r] >= 0
           /\ request.idxs[r] < Len(tutor._docstore)
           /\ tutor._docstore[request.idxs[r] + 1].text = <<>>
    /\ \E r \in 1..Len(request.idxs) : request.idxs[r] >= Len(tutor._docstore)
    /\ request.generate_calls = 0

(***************************************************************************)
(* C21, as stated: every retrieval call, for every query string, ends in   *)
(* exactly one of two outcomes: it returns a (possibly empty) context with *)
(* its chunk list, or it reports the no-index precondition failure; there  *)
(* is no other failure outcome.                                            *)
(***************************************************************************)
NoIndexFailures ==
    {"Vector index not found", "Vector index is empty",
     "RuntimeError: No chunks available in docstore."}

ContextOrNoIndex ==
    \/ request.state = "returned" /\ request.error = ""
    \/ request.state = "raised" /\ request.error \in NoIndexFailures

C21_OnlyContextOrNoIndex ==
    request.state # "none" => ContextOrNoIndex

(***************************************************************************)
(* C21, amended: every retrieval call with a query that is not blank ends  *)
(* in exactly one of two outcomes: it returns a (possibly empty) context   *)
(* with its chunk list, or it reports the no-index precondition failure;   *)
(* a blank query (empty or whitespace only) is a third outcome, rejected   *)
(* with the error "Question must not be empty" before any search.          *)
(***************************************************************************)
C21_NonBlankQueryContextOrNoIndex ==
    request.state # "none" =>
        /\ StripNonEmpty(request.question) =>
               /\ ContextOrNoIndex
               /\ request.state = "returned" <=> tutor.state = "ready"
               /\ request.state = "raised" => request.error = tutor.error
        /\ ~StripNonEmpty(request.question) =>
               /\ request.state = "raised"
               /\ request.error = "ValueError: Question must not be empty"
               /\ request.idxs = <<>>

C21_Witness ==
    /\ request.state = "raised"
    /\ StripNonEmpty(request.question)
    /\ request.error = "Vector index is empty"
    /\ faiss_index.exists

(***************************************************************************)
(* Vocabulary of the chunk_text properties.                                *)
(***************************************************************************)
ChunkerDone == chunker.pc = "done"

\* The word sequence of the text given to the call.
ChunkerWords == Split(chunker.text)

\* Number of window starts k*step (k = 0, 1, ...) below n.
WindowCount(n, step) == (n + step - 1) \div step

\* The k-th window (k from 0) of w: words k*step .. min(k*step+s, n)-1,
\* numbered from 0, joined by single spaces.
WindowAt(w, k, chunk_size_words, step) ==
    Join(SubSeq(w, k * step + 1, Min(k * step + chunk_size_words, Len(w))))

WindowsOf(w, chunk_size_words, overlap_words) ==
    LET step == IF chunk_size_words - overlap_words >= 1
                THEN chunk_size_words - overlap_words ELSE 1
    IN [i \in 1..WindowCount(Len(w), step) |->
            WindowAt(w, i - 1, chunk_size_words, step)]

(***************************************************************************)
(* C22: for a word sequence w of length n, a chunk size s >= 1 and an      *)
(* overlap o >= 0, with step = max(1, s - o), chunk_text returns exactly   *)
(* one chunk for each window start k*step < n, in order, the k-th chunk    *)
(* being the words w[k*step .. min(k*step+s, n)-1] joined by single        *)
(* spaces; an empty or whitespace-only text gives the empty sequence.      *)
(***************************************************************************)
C22_ChunksAreTheSlidingWindows ==
    ChunkerDone =>
        /\ (chunker.chunk_size_words >= 1 /\ chunker.overlap_words >= 0) =>
               /\ chunker.chunks =
                      WindowsOf(ChunkerWords, chunker.chunk_size_words,
                                chunker.overlap_words)
               /\ chunker.chunks =
                      chunk_text(chunker.text, chunker.chunk_size_words,
                                 chunker.overlap_words)
        /\ ChunkerWords = <<>> => chunker.chunks = <<>>

C22_Witness ==
    /\ ChunkerDone
    /\ chunker.chunk_size_words = 3
    /\ chunker.overlap_words = 1
    /\ Len(ChunkerWords) = 4
    /\ Len(chunker.chunks) = 2
    /\ chunker.chunks[2] = <<"c", " ", "d", "d">>

(***************************************************************************)
(* C23: for every text T with 1 <= len(words(T)) <= s and every overlap o, *)
(* chunk_text(T, s, o) returns exactly one chunk, equal to T's words       *)
(* joined by single spaces.                                                *)
(***************************************************************************)
C23_ShortTextIsOneChunk ==
    (/\ ChunkerDone
     /\ Len(ChunkerWords) >= 1
     /\ Len(ChunkerWords) <= chunker.chunk_size_words) =>
        chunker.chunks = <<Join(ChunkerWords)>>

\* A chunk's words without its first k words (all of them removed when it
\* has no more than k; none when k is not positive).
DropWords(ws, k) ==
    IF k <= 0 THEN ws ELSE SubSeq(ws, k + 1, Len(ws))

RECURSIVE ReassembleFrom(_, _, _)
ReassembleFrom(chunks, i, k) ==
    IF i > Len(chunks) THEN <<>>
    ELSE DropWords(Split(chunks[i]), IF i = 1 THEN 0 ELSE k)
             \o ReassembleFrom(chunks, i + 1, k)

\* The first chunk in full, then each later chunk without its k leading words.
Reassemble(chunks, k) == ReassembleFrom(chunks, 1, k)

(***************************************************************************)
(* C24: for every text T, chunk size s and overlap o, taking the first     *)
(* chunk of chunk_text(T, s, o) in full and appending each later chunk     *)
(* with its o overlapping leading words removed reproduces exactly the     *)
(* whitespace-split word sequence of T (no word lost, duplicated or        *)
(* reordered).                                                             *)
(***************************************************************************)
C24_RemovingOverlapWordsRestoresText ==
    ChunkerDone =>
        Reassemble(chunker.chunks, chunker.overlap_words) = ChunkerWords

(***************************************************************************)
(* C24, amended: for every text T, chunk size s >= 1 and overlap o >= 0,   *)
(* taking the first chunk of chunk_text(T, s, o) in full and appending     *)
(* each later chunk with its min(o, s - 1) overlapping leading words       *)
(* removed reproduces exactly the whitespace-split word sequence of T (no  *)
(* word lost, duplicated or reordered).                                    *)
(***************************************************************************)
C24_RemovingActualOverlapRestoresText ==
    (/\ ChunkerDone
     /\ chunker.chunk_size_words >= 1
     /\ chunker.overlap_words >= 0) =>
        Reassemble(chunker.chunks,
                   Min(chunker.overlap_words, chunker.chunk_size_words - 1))
            = ChunkerWords

C24_Witness ==
    /\ ChunkerDone
    /\ chunker.chunk_size_words = 2
    /\ chunker.overlap_words = 3
    /\ Len(ChunkerWords) = 3
    /\ Len(chunker.chunks) = 3
    /\ Reassemble(chunker.chunks, 1) = ChunkerWords
    /\ Reassemble(chunker.chunks, 3) # ChunkerWords

(***************************************************************************)
(* C25: chunk_text terminates for every text and every integer             *)
(* chunk_size_words and overlap_words, including overlap_words >=          *)
(* chunk_size_words: the start position advances by at least one word on   *)
(* every iteration (after i iterations it is i*step with step >= 1, and an *)
(* iteration needs start < len(words)), so the loop runs at most           *)
(* len(words) times and at most len(words) chunks are produced.            *)
(***************************************************************************)
C25_StartAdvancesSoAtMostLenWordsChunks ==
    /\ chunker.pc = "loop" => chunker.step >= 1
    /\ chunker.start = chunker.iterations * chunker.step
    /\ Len(chunker.chunks) = chunker.iterations
    /\ chunker.iterations <= Len(ChunkerWords)
    /\ (chunker.pc = "loop" /\ chunker.iterations >= 1) =>
           chunker.start - chunker.step < Len(chunker.words)

C25_Witness ==
    /\ ChunkerDone
    /\ chunker.overlap_words >= chunker.chunk_size_words
    /\ chunker.chunk_size_words >= 1
    /\ Len(ChunkerWords) = MaxWords
    /\ chunker.iterations = MaxWords

(***************************************************************************)
(* Vocabulary of the concurrency properties.                               *)
(***************************************************************************)
\* Builder b is inside build_or_update_index.
Running(b) == pc[b] \notin {"idle", "done", "raised"}

AtMostOneBuildRuns ==
    \A b1, b2 \in Builders : (Running(b1) /\ Running(b2)) => b1 = b2

\* With no build running, the published index, docstore and metadata were
\* all written by the same build.
PublishedFromOneBuild ==
    ((\A b \in Builders : ~Running(b)) /\ index_metadata.exists) =>
        /\ origin.faiss_index = origin.index_metadata
        /\ origin.docstore = origin.index_metadata

(***************************************************************************)
(* C26: at most one build executes at a time: when a build is invoked      *)
(* while another is in progress their writes never interleave (builds are  *)
(* serialized), so the published index, docstore and metadata always come  *)
(* from a single build.                                                    *)
(***************************************************************************)
C26_BuildsAreSerialized ==
    /\ AtMostOneBuildRuns
    /\ PublishedFromOneBuild

(***************************************************************************)
(* C27: a tutor that loads its docstore and vector index while a rebuild   *)
(* is running never ends up holding a docstore from one build together     *)
(* with a vector index from a different build.                             *)
(***************************************************************************)
C27_TutorHoldsArtifactsOfOneBuild ==
    tutor.state = "ready" => origin.tutor_docstore = origin.tutor_index

\* The cache entry of a source file: the two artifacts under its file id.
CacheEntryOf(p) ==
    <<cache_chunks[_compute_file_id(p)], cache_embeddings[_compute_file_id(p)]>>

(***************************************************************************)
(* C28: processing one source file during a build creates or overwrites    *)
(* only the cache artifacts keyed by that file's own file id: distinct     *)
(* source paths have distinct cache keys, so in any interleaving of the    *)
(* per-file processing of concurrent builds, a step that processes file A  *)
(* never creates, alters or removes the cache entry of another file B.     *)
(***************************************************************************)
C28_FileTouchesOnlyItsOwnCacheEntry ==
    [][/\ \A p, q \in Paths : p # q => _compute_file_id(p) # _compute_file_id(q)
       /\ \A b \in Builders :
              LoopStep(b) =>
                  \A q \in Paths \ {CurrentPath(b)} : CacheEntryOf(q)' = CacheEntryOf(q)
       /\ (\A b \in Builders : ~LoopStep(b)) =>
              UNCHANGED <<cache_chunks, cache_embeddings>>]_vars

C28_Witness ==
    /\ pc[1] = "loop" /\ pc[2] = "loop"
    /\ pos[1] = 2 /\ pos[2] = 3
    /\ "a.txt" \in log[1].saved
    /\ log[2].saved = {"a.txt", "b.pdf"}
    /\ CacheEntryOf("b.pdf")[1].exists
    /\ CacheEntryOf("a.txt") # CacheEntryOf("b.pdf")

RECURSIVE FreshChunksOfAll(_, _)
FreshChunksOfAll(paths, readable) ==
    IF paths = <<>> THEN <<>>
    ELSE (IF Head(paths) \in readable THEN FreshChunks(Head(paths)) ELSE <<>>)
             \o FreshChunksOfAll(Tail(paths), readable)

\* The docstore a build with an empty cache and an empty fingerprint map writes
\* for the present files, when the loaders can read the files in `readable`.
FromScratchDocstore(readable) ==
    FreshChunksOfAll(discover_textbook_files(textbooks_dir).supported, readable)

(***************************************************************************)
(* C29: when every content change of a file changes its fingerprint and    *)
(* equal content has an equal fingerprint, then after any sequence of      *)
(* edits, reverts, deletions, completed builds and builds aborted inside   *)
(* the file loop, the docstore a completed build writes equals the         *)
(* docstore a from-scratch build would write for the same files, and no    *)
(* cache entry is reused for a file whose present text chunks differently. *)
(***************************************************************************)
C29_IncrementalBuildEqualsFromScratch ==
    \A b \in Builders :
        (Completed(b) /\ log[b].wrote_docstore) =>
            /\ \E readable \in SUBSET Paths :
                   docstore.data = FromScratchDocstore(readable)
            /\ \A p \in log[b].reused :
                   cache_at_start[b].chunks[_compute_file_id(p)].data = FreshChunks(p)

(***************************************************************************)
(* C30: build is idempotent on an unchanged source directory: a second     *)
(* completed build, run with no file added, removed or modified since the  *)
(* first, writes the same docstore (same chunk ids, texts and order), the  *)
(* same index rows, the same total_chunks and index_built flag, the same   *)
(* unsupported_files list and the same fingerprint map as the first:       *)
(* every write of the second build leaves the artifact as the first build  *)
(* left it, and the second build returns what the first returned.          *)
(***************************************************************************)
C30_SecondBuildWritesTheSame ==
    [][(pc[1] = "done" /\ pc'[1] = "done") =>
           /\ UNCHANGED <<file_cache_metadata, faiss_index, docstore, index_metadata>>
           /\ pc'[2] = "done" =>
                  /\ returned'[2] = returned[1]
                  /\ all_chunks'[2] = all_chunks[1]
                  /\ VStack(all_embeddings'[2]) = VStack(all_embeddings[1])
                  /\ existing_meta'[2] = existing_meta[1]]_vars

C30_Witness ==
    /\ pc[1] = "done" /\ pc[2] = "done"
    /\ log[1].saved = {"a.txt", "b.pdf"}
    /\ log[2].reused = {"a.txt", "b.pdf"}
    /\ log[2].wrote_index /\ log[2].wrote_docstore /\ log[2].wrote_metadata
    /\ returned[2].total_chunks = 3
    /\ \E i \in 1..Len(returned[2].unsupported_files) :
           returned[2].unsupported_files[i].path = "c.bin"

====
